---- MODULE Spec2Model ----
(***************************************************************************)
(* The personalised-recommendation pipeline of the oralhealth site:        *)
(* RecommendationMatcher (candidate filter, relevance scorer, ranking),    *)
(* GeminiAIService (narrative synthesis with its fallback) and             *)
(* AIRecommendationService.process_user_profile (the session run), with    *)
(* the admin change form of AIRecommendationSession.                       *)
(*                                                                         *)
(* Text fields are sets of the phrases that occur in them; `kw in field`   *)
(* is containment of kw in one of the phrases.  Scores are held in         *)
(* hundredths (0.05 is 5, 1.0 is 100); the rounding of the double sums is  *)
(* not modelled.                                                           *)
(***************************************************************************)
EXTENDS Integers, Sequences, FiniteSets, TLC

VARIABLES
  profile,          \* the UserProfile being processed
  corpus,           \* Recommendation.objects, in queryset order
  limit,            \* the limit argument of find_matching_recommendations
  api_key,          \* whether settings.GEMINI_API_KEY is set
  pc,               \* position of the operation in progress
  result,           \* value returned by a function called on its own
  scored,           \* scored_recommendations of process_user_profile
  idx,              \* position of its loop over scored_recommendations
  recommendations,  \* its list `recommendations`
  db_session,       \* the stored AIRecommendationSession row
  ai_session,       \* the in-memory ai_session object of the run
  m2m,              \* ai_session.matched_recommendations (stored)
  matches,          \* the stored RecommendationMatch rows of the session
  ai_analysis,      \* the dict returned by analyze_recommendations
  ai_raised,        \* whether the narrative service raised
  exc,              \* the exception propagating out of the try block
  admin_edits,      \* number of admin change-form saves so far
  cache,            \* django.core.cache: the value stored under each key
  calls,            \* cache and provider calls of the translate_text in progress
  translator        \* the TranslationService instance

vars == <<profile, corpus, limit, api_key, pc, result, scored, idx,
          recommendations, db_session, ai_session, m2m, matches,
          ai_analysis, ai_raised, exc, admin_edits, cache, calls,
          translator>>

NULL == "NULL"

(***************************************************************************)
(* Strings: the proper-substring relation and lower() on the vocabulary.   *)
(***************************************************************************)
SubPairs ==
  { <<"adult", "adults">>,
    <<"adult", "older adult">>,
    <<"adult", "older adults">>,
    <<"adult", "young adult">>,
    <<"adult", "young adults">>,
    <<"adults", "older adults">>,
    <<"adults", "young adults">>,
    <<"america", "american dental association">>,
    <<"america", "south america">>,
    <<"australia", "australian dental association">>,
    <<"child", "children">>,
    <<"child", "young child">>,
    <<"england", "new england">>,
    <<"england", "public health england">>,
    <<"fluoride", "fluoride varnish">>,
    <<"high", "high risk">>,
    <<"international", "international association for dental research">>,
    <<"low", "very low">>,
    <<"older adult", "older adults">>,
    <<"pregnant", "pregnant women">>,
    <<"school", "preschool">>,
    <<"school", "school age">>,
    <<"teen", "teenager">>,
    <<"teen", "teenagers">>,
    <<"teenager", "teenagers">>,
    <<"uk", "ukraine">>,
    <<"wales", "public health wales">>,
    <<"world", "fdi world dental federation">>,
    <<"young adult", "young adults">> }

lower(s) ==
  CASE s = "AMERICA" -> "america"
    [] s = "America" -> "america"
    [] s = "American Dental Association" -> "american dental association"
    [] s = "Australia" -> "australia"
    [] s = "Australian Dental Association" -> "australian dental association"
    [] s = "Canada" -> "canada"
    [] s = "Caries" -> "caries"
    [] s = "Conditional" -> "conditional"
    [] s = "DGZMK" -> "dgzmk"
    [] s = "ENGLAND" -> "england"
    [] s = "England" -> "england"
    [] s = "FDI World Dental Federation" -> "fdi world dental federation"
    [] s = "FRANCE" -> "france"
    [] s = "Fluoride varnish" -> "fluoride varnish"
    [] s = "Fluoride" -> "fluoride"
    [] s = "France" -> "france"
    [] s = "GREAT BRITAIN" -> "great britain"
    [] s = "Germany" -> "germany"
    [] s = "Good practice point" -> "good practice point"
    [] s = "Great Britain" -> "great britain"
    [] s = "Gum" -> "gum"
    [] s = "High" -> "high"
    [] s = "International Association for Dental Research" -> "international association for dental research"
    [] s = "International" -> "international"
    [] s = "Low" -> "low"
    [] s = "Moderate" -> "moderate"
    [] s = "Mouthguards" -> "mouthguards"
    [] s = "NEW ZEALAND" -> "new zealand"
    [] s = "NICE" -> "nice"
    [] s = "NORTHERN IRELAND" -> "northern ireland"
    [] s = "New England" -> "new england"
    [] s = "New Zealand" -> "new zealand"
    [] s = "Northern Ireland" -> "northern ireland"
    [] s = "Oral health" -> "oral health"
    [] s = "Orthodontic" -> "orthodontic"
    [] s = "Periodontitis" -> "periodontitis"
    [] s = "Public Health England" -> "public health england"
    [] s = "Public Health Wales" -> "public health wales"
    [] s = "SCOTLAND" -> "scotland"
    [] s = "SIGN" -> "sign"
    [] s = "SOUTH AFRICA" -> "south africa"
    [] s = "Scotland" -> "scotland"
    [] s = "South Africa" -> "south africa"
    [] s = "South America" -> "south america"
    [] s = "Strong" -> "strong"
    [] s = "Switzerland" -> "switzerland"
    [] s = "UK" -> "uk"
    [] s = "UNITED KINGDOM" -> "united kingdom"
    [] s = "UNITED STATES" -> "united states"
    [] s = "US" -> "us"
    [] s = "USA" -> "usa"
    [] s = "Uk" -> "uk"
    [] s = "Ukraine" -> "ukraine"
    [] s = "United Kingdom" -> "united kingdom"
    [] s = "United States" -> "united states"
    [] s = "Us" -> "us"
    [] s = "Usa" -> "usa"
    [] s = "Very Low" -> "very low"
    [] s = "WALES" -> "wales"
    [] s = "WHO" -> "who"
    [] s = "Wales" -> "wales"
    [] s = "Weak" -> "weak"
    [] OTHER -> s

\* Python `kw in s` on lower-cased strings.
contains(kw, s) == kw = s \/ <<kw, s>> \in SubPairs

\* Django `field__icontains=kw` on a text field / `kw in field.lower()`.
icontains(field, kw) == \E p \in field : contains(lower(kw), lower(p))

\* any(term in text for term in terms)
any_in(terms, field) == \E t \in terms : icontains(field, t)

\* f"{recommendation.title} {recommendation.text}".lower()
text_lower(rec) == rec.title \cup rec.text

(***************************************************************************)
(* RecommendationMatcher: candidate filter                                 *)
(***************************************************************************)
\* The bucket chosen by the if/elif chain on the profile location.
geo_bucket(p) ==
  LET country_name == {lower(p.location_country)} IN
  IF icontains(country_name, "united kingdom") \/ icontains(country_name, "uk")
    THEN {"United Kingdom", "England", "Scotland"}
  ELSE IF icontains(country_name, "united states") \/ icontains(country_name, "usa")
          \/ icontains(country_name, "america")
    THEN {"United States"}
  ELSE IF icontains(country_name, "canada") THEN {"Canada"}
  ELSE IF icontains(country_name, "australia") THEN {"Australia"}
  ELSE {}

\* _apply_geographic_filter without the 'International' term.
_apply_geographic_filter_who_only(p, rec) ==
  IF geo_bucket(p) = {} THEN TRUE
  ELSE \/ \E c \in geo_bucket(p) : icontains({rec.country}, c)
       \/ icontains({rec.org}, "WHO")

_apply_geographic_filter(p, rec) ==
  IF geo_bucket(p) = {} THEN TRUE
  ELSE \/ \E c \in geo_bucket(p) : icontains({rec.country}, c)
       \/ icontains({rec.org}, "WHO")
       \/ icontains({rec.org}, "International")

filter_age_keywords(age_group) ==
  CASE age_group = "0-2"   -> {"infant", "baby", "toddler", "0-2", "under 2"}
    [] age_group = "3-5"   -> {"preschool", "child", "children", "3-5", "young child"}
    [] age_group = "6-12"  -> {"school", "child", "children", "6-12", "pediatric"}
    [] age_group = "13-17" -> {"adolescent", "teenager", "teen", "13-17", "young adult"}
    [] age_group = "18-30" -> {"adult", "young adult"}
    [] age_group = "31-50" -> {"adult"}
    [] age_group = "51-65" -> {"adult", "middle-aged"}
    [] age_group = "65+"   -> {"adult", "elderly", "senior", "older adult", "65+"}
    [] OTHER -> {"adult"}

_apply_age_filter(p, rec) ==
  \/ \E keyword \in filter_age_keywords(p.age_group) :
        \/ icontains(rec.title, keyword)
        \/ icontains(rec.text, keyword)
        \/ icontains(rec.target_population, keyword)
  \/ rec.target_population = {}

\* The keyword predicates OR-ed into condition_filters, one per active condition.
caries_filter(rec) ==
  \/ icontains(rec.title, "caries") \/ icontains(rec.title, "decay")
  \/ icontains(rec.title, "fluoride") \/ icontains(rec.text, "high risk")

periodontal_filter(rec) ==
  \/ icontains(rec.title, "periodontal") \/ icontains(rec.title, "gum")
  \/ icontains(rec.title, "gingivitis") \/ icontains(rec.title, "periodontitis")

orthodontics_filter(rec) ==
  \/ icontains(rec.title, "orthodontic") \/ icontains(rec.title, "braces")
  \/ icontains(rec.text, "orthodontic")

diabetes_filter(rec) == icontains(rec.text, "diabetes") \/ icontains(rec.text, "diabetic")

pregnancy_filter(rec) ==
  \/ icontains(rec.text, "pregnancy") \/ icontains(rec.text, "pregnant")
  \/ icontains(rec.target_population, "pregnant")

dry_mouth_filter(rec) == icontains(rec.text, "dry mouth") \/ icontains(rec.text, "xerostomia")

periodontal_active(p) == p.periodontal_status \in {"gingivitis", "periodontitis"}

\* `if not condition_filters`: no condition contributed a predicate.
no_condition(p) ==
  /\ p.caries_risk # "high" /\ ~periodontal_active(p)
  /\ ~p.has_orthodontics /\ ~p.has_diabetes /\ ~p.is_pregnant /\ ~p.has_dry_mouth

general_filter(rec) ==
  \/ icontains(rec.title, "oral health") \/ icontains(rec.title, "dental hygiene")
  \/ icontains(rec.title, "tooth brushing")

\* _apply_condition_filters OR-ing the keywords of every condition once any
\* condition is active.
_apply_condition_filters_every_keyword(p, rec) ==
  IF no_condition(p) THEN TRUE
  ELSE \/ caries_filter(rec) \/ periodontal_filter(rec) \/ orthodontics_filter(rec)
       \/ diabetes_filter(rec) \/ pregnancy_filter(rec) \/ dry_mouth_filter(rec)
       \/ general_filter(rec)

\* _apply_condition_filters requiring the keywords of every active
\* condition instead of any.
_apply_condition_filters_all_conditions(p, rec) ==
  IF no_condition(p) THEN TRUE
  ELSE \/ /\ p.caries_risk = "high" => caries_filter(rec)
          /\ periodontal_active(p) => periodontal_filter(rec)
          /\ p.has_orthodontics => orthodontics_filter(rec)
          /\ p.has_diabetes => diabetes_filter(rec)
          /\ p.is_pregnant => pregnancy_filter(rec)
          /\ p.has_dry_mouth => dry_mouth_filter(rec)
       \/ general_filter(rec)

_apply_condition_filters(p, rec) ==
  IF no_condition(p) THEN TRUE
  ELSE \/ p.caries_risk = "high" /\ caries_filter(rec)
       \/ periodontal_active(p) /\ periodontal_filter(rec)
       \/ p.has_orthodontics /\ orthodontics_filter(rec)
       \/ p.has_diabetes /\ diabetes_filter(rec)
       \/ p.is_pregnant /\ pregnancy_filter(rec)
       \/ p.has_dry_mouth /\ dry_mouth_filter(rec)
       \/ general_filter(rec)

(***************************************************************************)
(* RecommendationMatcher: relevance scorer (hundredths)                    *)
(***************************************************************************)
quality_scores == << <<"High", 30>>, <<"Moderate", 20>>, <<"Low", 10>>, <<"Very Low", 5>> >>

strength_scores == << <<"Strong", 25>>, <<"Conditional", 15>>, <<"Weak", 10>> >>

\* for key, bonus in table.items(): if key.lower() in name.lower(): bonus; break
first_match_bonus(table, name) ==
  LET hits == {i \in 1..Len(table) : icontains({name}, table[i][1])} IN
  IF hits = {} THEN 0
  ELSE table[CHOOSE i \in hits : \A j \in hits : i <= j][2]

score_age_keywords(age_group) ==
  CASE age_group = "0-2"   -> {"infant", "baby", "toddler"}
    [] age_group = "3-5"   -> {"preschool", "young child"}
    [] age_group = "6-12"  -> {"school age", "child", "pediatric"}
    [] age_group = "13-17" -> {"adolescent", "teenager", "teen"}
    [] age_group = "18-30" -> {"young adult"}
    [] age_group = "31-50" -> {"adult"}
    [] age_group = "51-65" -> {"middle-aged", "adult"}
    [] age_group = "65+"   -> {"elderly", "senior", "older adult"}
    [] OTHER -> {}

AgeGroups == {"0-2", "3-5", "6-12", "13-17", "18-30", "31-50", "51-65", "65+"}

\* _score_age_match with a mismatch penalty of 0.2.
_score_age_match_penalty20(p, rec) ==
  LET keywords == score_age_keywords(p.age_group)
      other_keywords == UNION {score_age_keywords(g) : g \in AgeGroups} \ keywords
  IN IF any_in(keywords, text_lower(rec)) THEN 20
     ELSE IF \E keyword \in other_keywords :
                icontains(text_lower(rec), keyword) /\ keyword # "adult"
          THEN -20
     ELSE 0


\* _score_age_match without the exception for 'adult'.
_score_age_match_adult_penalised(p, rec) ==
  LET keywords == score_age_keywords(p.age_group)
      other_keywords == UNION {score_age_keywords(g) : g \in AgeGroups} \ keywords
  IN IF any_in(keywords, text_lower(rec)) THEN 20
     ELSE IF \E keyword \in other_keywords : icontains(text_lower(rec), keyword)
          THEN -10
     ELSE 0

_score_age_match(p, rec) ==
  LET keywords == score_age_keywords(p.age_group)
      all_age_keywords == UNION {score_age_keywords(g) : g \in AgeGroups}
      other_keywords == all_age_keywords \ keywords
  IN IF any_in(keywords, text_lower(rec)) THEN 20
     ELSE IF \E keyword \in other_keywords :
                icontains(text_lower(rec), keyword) /\ keyword # "adult"
          THEN -10
     ELSE 0

\* _score_condition_match crediting keywords whether or not the profile has
\* the special condition.
_score_condition_match_ignoring_flags(p, rec) ==
  LET t == text_lower(rec) IN
    (IF p.caries_risk = "high" /\ any_in({"high risk", "caries", "decay", "fluoride"}, t)
       THEN 30 ELSE 0)
  + (IF periodontal_active(p) /\ any_in({"periodontal", "gum", "gingivitis"}, t)
       THEN 30 ELSE 0)
  + (IF any_in({"orthodontic", "braces"}, t) THEN 25 ELSE 0)
  + (IF any_in({"diabetes", "diabetic"}, t) THEN 25 ELSE 0)
  + (IF any_in({"pregnancy", "pregnant"}, t) THEN 25 ELSE 0)
  + (IF any_in({"dry mouth", "xerostomia"}, t) THEN 25 ELSE 0)

_score_condition_match(p, rec) ==
  LET t == text_lower(rec) IN
    (IF p.caries_risk = "high" /\ any_in({"high risk", "caries", "decay", "fluoride"}, t)
       THEN 30 ELSE 0)
  + (IF periodontal_active(p) /\ any_in({"periodontal", "gum", "gingivitis"}, t)
       THEN 30 ELSE 0)
  + (IF p.has_orthodontics /\ any_in({"orthodontic", "braces"}, t) THEN 25 ELSE 0)
  + (IF p.has_diabetes /\ any_in({"diabetes", "diabetic"}, t) THEN 25 ELSE 0)
  + (IF p.is_pregnant /\ any_in({"pregnancy", "pregnant"}, t) THEN 25 ELSE 0)
  + (IF p.has_dry_mouth /\ any_in({"dry mouth", "xerostomia"}, t) THEN 25 ELSE 0)

\* _score_geographic_match adding up every branch that applies.
_score_geographic_match_summed(p, rec) ==
  LET user_country == lower(p.location_country)
      rec_country == lower(rec.country)
      uk_countries == {"united kingdom", "england", "scotland", "wales"}
  IN (IF contains(user_country, rec_country) \/ contains(rec_country, user_country)
        THEN 30 ELSE 0)
   + (IF any_in(uk_countries, {user_country}) /\ any_in(uk_countries, {rec_country})
        THEN 25 ELSE 0)
   + (IF any_in({"who", "international", "world"}, {rec.org}) THEN 15 ELSE 0)

_score_geographic_match(p, rec) ==
  LET user_country == lower(p.location_country)
      rec_country == lower(rec.country)
      uk_countries == {"united kingdom", "england", "scotland", "wales"}
  IN IF contains(user_country, rec_country) \/ contains(rec_country, user_country)
       THEN 30
     ELSE IF any_in(uk_countries, {user_country}) /\ any_in(uk_countries, {rec_country})
       THEN 25
     ELSE IF any_in({"who", "international", "world"}, {rec.org}) THEN 15
     ELSE 0

_score_risk_alignment(p, rec) ==
  LET t == text_lower(rec) IN
    (IF icontains(t, "fluoride")
       THEN IF p.fluoride_exposure \in {"none", "water"} THEN 20
            ELSE IF p.fluoride_exposure = "professional" THEN 10 ELSE 0
       ELSE 0)
  + (IF p.diet_sugar_intake = "high" /\ any_in({"diet", "sugar", "frequency", "snacking"}, t)
       THEN 20 ELSE 0)

min(a, b) == IF a <= b THEN a ELSE b

\* _calculate_relevance_score returning max(score, 1.0).
_calculate_relevance_score_max(p, rec) ==
  LET evidence == IF rec.evidence_quality # NULL
                    THEN first_match_bonus(quality_scores, rec.evidence_quality) ELSE 0
      strength == IF rec.strength # NULL
                    THEN first_match_bonus(strength_scores, rec.strength) ELSE 0
      score == 10 + evidence + strength + _score_age_match(p, rec)
               + _score_condition_match(p, rec) + _score_geographic_match(p, rec)
               + _score_risk_alignment(p, rec)
  IN IF score >= 100 THEN score ELSE 100


_calculate_relevance_score(p, rec) ==
  LET base == 10
      evidence == IF rec.evidence_quality # NULL
                    THEN first_match_bonus(quality_scores, rec.evidence_quality) ELSE 0
      strength == IF rec.strength # NULL
                    THEN first_match_bonus(strength_scores, rec.strength) ELSE 0
  IN min(base + evidence + strength + _score_age_match(p, rec)
         + _score_condition_match(p, rec) + _score_geographic_match(p, rec)
         + _score_risk_alignment(p, rec), 100)

(***************************************************************************)
(* RecommendationMatcher: scoring loop, ranking and truncation             *)
(***************************************************************************)
\* The queryset after the three filters, in the corpus (queryset) order.
filtered_queryset(p, recs) ==
  SelectSeq(recs, LAMBDA rec : /\ _apply_geographic_filter(p, rec)
                               /\ _apply_age_filter(p, rec)
                               /\ _apply_condition_filters(p, rec))

\* scoring_loop keeping score >= 0.1.
RECURSIVE scoring_loop_ge(_, _)
scoring_loop_ge(p, queryset) ==
  IF queryset = <<>> THEN <<>>
  ELSE LET recommendation == Head(queryset)
           score == _calculate_relevance_score(p, recommendation)
       IN (IF score >= 10 THEN << <<recommendation, score>> >> ELSE <<>>)
          \o scoring_loop_ge(p, Tail(queryset))

\* The pairs appended by the scoring loop: only score > 0.1 is kept.
RECURSIVE scoring_loop(_, _)
scoring_loop(p, queryset) ==
  IF queryset = <<>> THEN <<>>
  ELSE LET recommendation == Head(queryset)
           score == _calculate_relevance_score(p, recommendation)
       IN (IF score > 10 THEN << <<recommendation, score>> >> ELSE <<>>)
          \o scoring_loop(p, Tail(queryset))

\* A descending sort that is not stable: equal scores come out reversed.
RECURSIVE sort_by_score_unstable(_)
sort_by_score_unstable(pairs) ==
  IF pairs = <<>> THEN <<>>
  ELSE LET x == Head(pairs)
           rest == sort_by_score_unstable(Tail(pairs))
           before == SelectSeq(rest, LAMBDA y : y[2] >= x[2])
           after == SelectSeq(rest, LAMBDA y : y[2] < x[2])
       IN before \o <<x>> \o after

\* list.sort(key=lambda x: x[1], reverse=True): a stable sort, so an element
\* goes after every element of greater score and before the later elements
\* of equal score.
RECURSIVE sort_by_score_reverse(_)
sort_by_score_reverse(pairs) ==
  IF pairs = <<>> THEN <<>>
  ELSE LET x == Head(pairs)
           rest == sort_by_score_reverse(Tail(pairs))
           before == SelectSeq(rest, LAMBDA y : y[2] > x[2])
           after == SelectSeq(rest, LAMBDA y : y[2] <= x[2])
       IN before \o <<x>> \o after

max(a, b) == IF a >= b THEN a ELSE b

\* s[:n + 1]
slice_to_plus1(s, n) ==
  IF n >= 0 THEN SubSeq(s, 1, IF n + 1 <= Len(s) THEN n + 1 ELSE Len(s))
  ELSE SubSeq(s, 1, IF Len(s) + n + 1 >= 0 THEN Len(s) + n + 1 ELSE 0)

\* s[:n], for negative n too.
slice_to(s, n) ==
  IF n >= 0 THEN SubSeq(s, 1, min(n, Len(s)))
  ELSE SubSeq(s, 1, max(Len(s) + n, 0))

find_matching_recommendations(p, recs, lim) ==
  slice_to(sort_by_score_reverse(scoring_loop(p, filtered_queryset(p, recs))), lim)

\* The tiers cut with > instead of >=.
priority_level_strict(score) ==
  IF score > 80 THEN "critical"
  ELSE IF score > 60 THEN "high"
  ELSE IF score > 40 THEN "medium"
  ELSE "low"

\* The if/elif chain of process_user_profile on the score.
priority_level(score) ==
  IF score >= 80 THEN "critical"
  ELSE IF score >= 60 THEN "high"
  ELSE IF score >= 40 THEN "medium"
  ELSE "low"

(***************************************************************************)
(* Inputs: the recommendation corpus and the profiles                      *)
(***************************************************************************)
MaxCorpus == 2
MaxLimit == 3
MaxExtra == 2

\* Rows of the corpus: title, text and target_population phrases, the
\* guideline's country and organization names, evidence quality and strength.
Catalog ==
  << [title |-> {"Fluoride", "high risk", "adults", "UK"}, text |-> {"adults"},
      target_population |-> {}, country |-> "United Kingdom", org |-> "NICE",
      evidence_quality |-> "High", strength |-> "Strong"],
     [title |-> {"Mouthguards"}, text |-> {"sport"},
      target_population |-> {}, country |-> "Germany", org |-> "DGZMK",
      evidence_quality |-> NULL, strength |-> NULL],
     [title |-> {"Fluoride varnish", "children"}, text |-> {"Caries", "sugar"},
      target_population |-> {"children"}, country |-> "Scotland", org |-> "SIGN",
      evidence_quality |-> "Moderate", strength |-> "Conditional"],
     [title |-> {"Periodontitis"}, text |-> {"older adults", "diabetes"},
      target_population |-> {"adults"}, country |-> "United States",
      org |-> "American Dental Association",
      evidence_quality |-> "Very Low", strength |-> "Weak"],
     [title |-> {"Oral health"}, text |-> {"pregnant women", "diet"},
      target_population |-> {"pregnant women"}, country |-> "Switzerland", org |-> "WHO",
      evidence_quality |-> "Low", strength |-> "Strong"],
     [title |-> {"Orthodontic"}, text |-> {"teenagers", "dry mouth"},
      target_population |-> {"teenagers"}, country |-> "Canada",
      org |-> "International Association for Dental Research",
      evidence_quality |-> "High", strength |-> "Good practice point"],
     [title |-> {"Mouthguards"}, text |-> {"teenagers", "sport"},
      target_population |-> {}, country |-> "Germany", org |-> "DGZMK",
      evidence_quality |-> NULL, strength |-> NULL],
     [title |-> {"Gum"}, text |-> {"young adults"},
      target_population |-> {"pregnant women"}, country |-> "England",
      org |-> "FDI World Dental Federation",
      evidence_quality |-> "Moderate", strength |-> NULL],
     [title |-> {"Caries"}, text |-> {"sugar"},
      target_population |-> {}, country |-> "England",
      org |-> "Public Health England",
      evidence_quality |-> NULL, strength |-> NULL] >>

\* The recommendation with primary key i and the fields of catalog row k.
Rec(i, k) == [id |-> i] @@ Catalog[k]

\* A corpus in queryset order, from the catalog rows it is made of.
CorpusOf(rows) == [i \in 1..Len(rows) |-> Rec(i, rows[i])]

RECURSIVE SeqsUpTo(_, _)
SeqsUpTo(S, n) ==
  IF n = 0 THEN {<<>>}
  ELSE LET shorter == SeqsUpTo(S, n - 1)
       IN shorter \cup {Append(s, x) : s \in {t \in shorter : Len(t) = n - 1}, x \in S}

Locations == {"United Kingdom", "England", "United States", "France"}

Profiles ==
  [age_group : AgeGroups, location_country : Locations,
   caries_risk : {"low", "high"}, periodontal_status : {"healthy", "periodontitis"},
   fluoride_exposure : {"none", "professional", "toothpaste"},
   has_orthodontics : BOOLEAN, has_diabetes : BOOLEAN,
   is_pregnant : BOOLEAN, has_dry_mouth : BOOLEAN,
   diet_sugar_intake : {"low", "high"}]

\* Profile of the spec's scenario A.
ProfileA ==
  [age_group |-> "18-30", location_country |-> "United Kingdom",
   caries_risk |-> "high", periodontal_status |-> "healthy",
   fluoride_exposure |-> "toothpaste",
   has_orthodontics |-> FALSE, has_diabetes |-> FALSE,
   is_pregnant |-> FALSE, has_dry_mouth |-> FALSE,
   diet_sugar_intake |-> "low"]

\* The profiles of the matcher and session specifications.
RunProfiles ==
  { ProfileA,
    [ProfileA EXCEPT !.location_country = "France", !.caries_risk = "low",
                     !.age_group = "31-50", !.diet_sugar_intake = "high"],
    [ProfileA EXCEPT !.location_country = "England", !.caries_risk = "low",
                     !.periodontal_status = "periodontitis", !.is_pregnant = TRUE,
                     !.diet_sugar_intake = "high"],
    [ProfileA EXCEPT !.location_country = "United States", !.age_group = "13-17",
                     !.has_orthodontics = TRUE, !.has_diabetes = TRUE,
                     !.has_dry_mouth = TRUE, !.fluoride_exposure = "none"] }

NoSession == [status |-> "none"]
NoExc == [cls |-> "none", args |-> <<>>, at |-> "none"]

\* The session-run variables when no run is in progress.
NoRun ==
  /\ scored = <<>> /\ idx = 0 /\ recommendations = <<>>
  /\ db_session = NoSession /\ ai_session = NoSession
  /\ m2m = {} /\ matches = <<>> /\ ai_analysis = <<>>
  /\ ai_raised = FALSE /\ exc = NoExc /\ admin_edits = 0
  /\ cache = <<>> /\ calls = <<>> /\ translator = <<>>

RunUnchanged ==
  UNCHANGED <<scored, idx, recommendations, db_session, ai_session, m2m, matches,
              ai_analysis, ai_raised, exc, admin_edits, cache, calls, translator>>

(***************************************************************************)
(* The scorer and the priority tier as functions of their inputs           *)
(***************************************************************************)
InitScore ==
  /\ profile \in Profiles
  /\ \E k \in 1..Len(Catalog) : corpus = CorpusOf(<<k>>)
  /\ limit = 0 /\ api_key = FALSE
  /\ pc = "score" /\ result = <<>>
  /\ NoRun

\* score = self._calculate_relevance_score(recommendation)
Score ==
  /\ pc = "score"
  /\ result' = [score |-> _calculate_relevance_score(profile, corpus[1])]
  /\ pc' = "scored"
  /\ UNCHANGED <<profile, corpus, limit, api_key>>
  /\ RunUnchanged

\* The tier that process_user_profile derives from a score.
Prioritise ==
  /\ pc = "scored"
  /\ result' = [score |-> result.score, priority |-> priority_level(result.score)]
  /\ pc' = "prioritised"
  /\ UNCHANGED <<profile, corpus, limit, api_key>>
  /\ RunUnchanged

NextScore == Score \/ Prioritise

SpecScore == InitScore /\ [][NextScore]_vars

\* Every score that can be stored with a match (score > 0.1, at most 1.0).
InitTier ==
  /\ profile = ProfileA /\ corpus = <<>>
  /\ limit = 0 /\ api_key = FALSE
  /\ pc = "scored" /\ \E s \in 11..100 : result = [score |-> s]
  /\ NoRun

SpecTier == InitTier /\ [][Prioritise]_vars

(***************************************************************************)
(* GeminiAIService: narrative synthesis.  A text is the sequence of its    *)
(* lines (its split on newlines); the empty text is the empty sequence.    *)
(* The bullet character U+2022 is written +.                               *)
(***************************************************************************)
\* line.strip()
strip(line) ==
  CASE line = "   " -> ""
    [] line = "  Brush twice daily  " -> "Brush twice daily"
    [] line = "  america " -> "america"
    [] line = "  england " -> "england"
    [] line = "  france " -> "france"
    [] line = "  great britain " -> "great britain"
    [] line = "  new zealand " -> "new zealand"
    [] line = "  northern ireland " -> "northern ireland"
    [] line = "  scotland " -> "scotland"
    [] line = "  south africa " -> "south africa"
    [] line = "  uk " -> "uk"
    [] line = "  united kingdom " -> "united kingdom"
    [] line = "  united states " -> "united states"
    [] line = "  us " -> "us"
    [] line = "  usa " -> "usa"
    [] line = "  wales " -> "wales"
    [] line = "  {U+017F}cotland " -> "{U+017F}cotland"
    [] line = "America " -> "America"
    [] line = "England " -> "England"
    [] line = "France " -> "France"
    [] line = "Great Britain " -> "Great Britain"
    [] line = "New Zealand " -> "New Zealand"
    [] line = "Northern Ireland " -> "Northern Ireland"
    [] line = "Scotland " -> "Scotland"
    [] line = "South Africa " -> "South Africa"
    [] line = "Uk " -> "Uk"
    [] line = "United Kingdom " -> "United Kingdom"
    [] line = "United States " -> "United States"
    [] line = "Us " -> "Us"
    [] line = "Usa " -> "Usa"
    [] line = "Wales " -> "Wales"
    [] OTHER -> line

\* action.strip('+ -') with + standing for the bullet U+2022: the three
\* characters are removed from both ends
strip_bullets(action) ==
  CASE action = "   " -> ""
    [] action = "  Brush twice daily  " -> "Brush twice daily"
    [] action = "- Use fluoride toothpaste" -> "Use fluoride toothpaste"
    [] action = "+" -> ""
    [] action = "+ See your dentist -" -> "See your dentist"
    [] OTHER -> action

\* `marker in line` for the six section markers
MarkerIn ==
  { <<"**IMPORTANT NOTES:**", "**IMPORTANT NOTES:**">>,
    <<"**PERSONALIZED ADVICE:**", "**PERSONALIZED ADVICE:**">>,
    <<"**PREVENTIVE STRATEGIES:**", "**PREVENTIVE STRATEGIES:**">>,
    <<"**PRIORITY ACTIONS:**", "**PRIORITY ACTIONS:**">>,
    <<"**RISK ASSESSMENT:**", "**PRIORITY ACTIONS:** **RISK ASSESSMENT:**">>,
    <<"**PRIORITY ACTIONS:**", "**PRIORITY ACTIONS:** **RISK ASSESSMENT:**">>,
    <<"**PROFESSIONAL CARE:**", "**PROFESSIONAL CARE:**">>,
    <<"**RISK ASSESSMENT:**", "**RISK ASSESSMENT:**">> }

marker_in(marker, line) == <<marker, line>> \in MarkerIn

\* text.split('\n')
split_lines(text) == IF text = <<>> THEN <<"">> ELSE text

SectionKeys ==
  << "risk_assessment", "personalized_advice", "priority_actions",
     "preventive_strategies", "professional_care", "important_notes" >>

SectionMarkers ==
  << "**RISK ASSESSMENT:**", "**PERSONALIZED ADVICE:**", "**PRIORITY ACTIONS:**",
     "**PREVENTIVE STRATEGIES:**", "**PROFESSIONAL CARE:**", "**IMPORTANT NOTES:**" >>

\* The section selected by the if/elif chain on a stripped line, 0 if none.
header_of(line) ==
  LET hits == {i \in 1..6 : marker_in(SectionMarkers[i], line)} IN
  IF hits = {} THEN 0 ELSE CHOOSE i \in hits : \A j \in hits : i <= j

\* The loop of _parse_ai_response: st = [current_section, sections].
RECURSIVE parse_lines(_, _)
parse_lines(lines, st) ==
  IF lines = <<>> THEN st
  ELSE LET line == strip(Head(lines)) IN
       parse_lines(Tail(lines),
         IF line = "" THEN st
         ELSE IF header_of(line) # 0
           THEN [st EXCEPT !.current_section = header_of(line)]
         ELSE IF st.current_section # 0
           THEN [st EXCEPT !.sections[st.current_section] = Append(@, line)]
         ELSE st)

\* _parse_ai_response returning only the sections whose marker was seen.
_parse_ai_response_seen(response_text) ==
  LET lines == split_lines(response_text)
      st == parse_lines(lines, [current_section |-> 0, sections |-> [i \in 1..6 |-> <<>>]])
      seen == {i \in 1..6 : \E n \in 1..Len(lines) : header_of(strip(lines[n])) = i}
  IN [k \in {SectionKeys[i] : i \in seen} \cup {"gemini_analysis"} |->
        IF k = "gemini_analysis" THEN response_text
        ELSE st.sections[CHOOSE i \in 1..6 : SectionKeys[i] = k]]


\* _parse_ai_response starting inside the first section instead of outside
\* every section.
_parse_ai_response_from_first_section(response_text) ==
  LET st == parse_lines(split_lines(response_text),
                        [current_section |-> 1, sections |-> [i \in 1..6 |-> <<>>]])
  IN [k \in {SectionKeys[i] : i \in 1..6} \cup {"gemini_analysis"} |->
        IF k = "gemini_analysis" THEN response_text
        ELSE st.sections[CHOOSE i \in 1..6 : SectionKeys[i] = k]]

_parse_ai_response(response_text) ==
  LET st == parse_lines(split_lines(response_text),
                        [current_section |-> 0, sections |-> [i \in 1..6 |-> <<>>]])
  IN [k \in {SectionKeys[i] : i \in 1..6} \cup {"gemini_analysis"} |->
        IF k = "gemini_analysis" THEN response_text
        ELSE st.sections[CHOOSE i \in 1..6 : SectionKeys[i] = k]]

\* f"Based on your profile, you have {len(risk_factors)} identified risk factors: {', '.join(risk_factors)}."
risk_sentence(risk_factors) ==
  CASE risk_factors = <<"high caries risk", "gum disease", "diabetes", "high sugar diet">> -> "Based on your profile, you have 4 identified risk factors: high caries risk, gum disease, diabetes, high sugar diet."
    [] risk_factors = <<"high caries risk", "gum disease", "diabetes">> -> "Based on your profile, you have 3 identified risk factors: high caries risk, gum disease, diabetes."
    [] risk_factors = <<"high caries risk", "gum disease", "high sugar diet">> -> "Based on your profile, you have 3 identified risk factors: high caries risk, gum disease, high sugar diet."
    [] risk_factors = <<"high caries risk", "gum disease">> -> "Based on your profile, you have 2 identified risk factors: high caries risk, gum disease."
    [] risk_factors = <<"high caries risk", "diabetes", "high sugar diet">> -> "Based on your profile, you have 3 identified risk factors: high caries risk, diabetes, high sugar diet."
    [] risk_factors = <<"high caries risk", "diabetes">> -> "Based on your profile, you have 2 identified risk factors: high caries risk, diabetes."
    [] risk_factors = <<"high caries risk", "high sugar diet">> -> "Based on your profile, you have 2 identified risk factors: high caries risk, high sugar diet."
    [] risk_factors = <<"high caries risk">> -> "Based on your profile, you have 1 identified risk factors: high caries risk."
    [] risk_factors = <<"gum disease", "diabetes", "high sugar diet">> -> "Based on your profile, you have 3 identified risk factors: gum disease, diabetes, high sugar diet."
    [] risk_factors = <<"gum disease", "diabetes">> -> "Based on your profile, you have 2 identified risk factors: gum disease, diabetes."
    [] risk_factors = <<"gum disease", "high sugar diet">> -> "Based on your profile, you have 2 identified risk factors: gum disease, high sugar diet."
    [] risk_factors = <<"gum disease">> -> "Based on your profile, you have 1 identified risk factors: gum disease."
    [] risk_factors = <<"diabetes", "high sugar diet">> -> "Based on your profile, you have 2 identified risk factors: diabetes, high sugar diet."
    [] risk_factors = <<"diabetes">> -> "Based on your profile, you have 1 identified risk factors: diabetes."
    [] risk_factors = <<"high sugar diet">> -> "Based on your profile, you have 1 identified risk factors: high sugar diet."

risk_factors_of(p) ==
     (IF p.caries_risk = "high" THEN <<"high caries risk">> ELSE <<>>)
  \o (IF periodontal_active(p) THEN <<"gum disease">> ELSE <<>>)
  \o (IF p.has_diabetes THEN <<"diabetes">> ELSE <<>>)
  \o (IF p.diet_sugar_intake = "high" THEN <<"high sugar diet">> ELSE <<>>)

\* _generate_fallback_analysis returning an empty dict when there is
\* nothing to analyse.
_generate_fallback_analysis_nonempty(p, recs) ==
  IF recs = <<>> THEN <<>>
  ELSE [gemini_analysis |-> <<"Analysis based on " \o ToString(Len(recs))
                               \o " evidence-based recommendations.">>,
        risk_assessment |-> <<>>, personalized_advice |-> <<>>,
        priority_actions |-> <<>>, preventive_strategies |-> <<>>,
        professional_care |-> <<>>, important_notes |-> <<>>]

_generate_fallback_analysis(p, recs) ==
  LET risk_factors == risk_factors_of(p)
      risk_text == IF risk_factors # <<>> THEN risk_sentence(risk_factors)
                   ELSE "Your oral health risk appears to be low to moderate."
      advice_points ==
           << "+ Follow evidence-based recommendations from reputable dental organizations",
              "+ Maintain regular oral hygiene practices",
              "+ Consider professional dental care based on your risk factors" >>
        \o (IF p.caries_risk = "high"
              THEN <<"+ Focus on fluoride use and dietary modifications">> ELSE <<>>)
        \o (IF p.periodontal_status # "healthy"
              THEN <<"+ Pay special attention to gum health and interdental cleaning">>
              ELSE <<>>)
  IN [gemini_analysis |->
         << "Analysis based on " \o ToString(Len(recs)) \o " evidence-based recommendations.",
            "", risk_text, "", "Key recommendations:" >> \o advice_points,
      risk_assessment |-> <<risk_text>>,
      personalized_advice |-> advice_points,
      priority_actions |-> <<"Review the evidence-based recommendations below and consult with a dental professional for personalized guidance.">>,
      preventive_strategies |-> <<"Follow standard oral hygiene practices and address specific risk factors identified in your profile.">>,
      professional_care |-> <<"Regular dental check-ups are recommended, with frequency based on your risk assessment.">>,
      important_notes |-> <<"This analysis is based on general guidelines. Always consult with a qualified dental professional for personalized care.">>]

\* What the narrative service does when called: it returns a text or raises.
ServiceReturns(response_text) == [raised |-> FALSE, text |-> response_text]
ServiceRaises == [raised |-> TRUE, text |-> <<>>]

analyze_recommendations(key, p, recs, outcome) ==
  IF ~key THEN _generate_fallback_analysis(p, recs)
  ELSE IF outcome.raised THEN _generate_fallback_analysis(p, recs)
  ELSE _parse_ai_response(outcome.text)

(***************************************************************************)
(* AIRecommendationService                                                 *)
(***************************************************************************)
ProcessLimit == 15
DefaultLimit == 20
MaxActions == 5
MaxAdminEdits == 1

\* f"{score:.2f}" of a score held in hundredths
format_2f(score) ==
  ToString(score \div 100) \o "." \o ToString((score % 100) \div 10) \o ToString(score % 10)

\* "; ".join(reasons)
RECURSIVE join(_)
join(reasons) ==
  IF reasons = <<>> THEN ""
  ELSE IF Len(reasons) = 1 THEN reasons[1]
  ELSE reasons[1] \o "; " \o join(Tail(reasons))

\* _generate_match_reasoning with the default clause appended to the other
\* clauses instead of standing in for them.
_generate_match_reasoning_default_always(p, rec, score) ==
  LET t == text_lower(rec)
      age_keywords == <<"infant", "child", "adolescent", "adult", "senior">>
      found == {i \in 1..Len(age_keywords) : icontains(t, age_keywords[i])}
      reasons ==
           (IF contains(lower(p.location_country), lower(rec.country))
              THEN <<"Guideline from " \o rec.country>> ELSE <<>>)
        \o (IF found # {}
              THEN <<"Age-appropriate ("
                     \o age_keywords[CHOOSE i \in found : \A j \in found : i <= j]
                     \o ")">>
              ELSE <<>>)
        \o (IF p.caries_risk = "high" /\ any_in({"caries", "decay", "fluoride"}, t)
              THEN <<"Addresses high caries risk">> ELSE <<>>)
        \o (IF p.periodontal_status # "healthy" /\ any_in({"periodontal", "gum"}, t)
              THEN <<"Relevant to gum health concerns">> ELSE <<>>)
        \o (IF rec.evidence_quality # NULL /\ icontains({rec.evidence_quality}, "high")
              THEN <<"High-quality evidence">> ELSE <<>>)
  IN join(reasons \o <<"General oral health recommendation">>)
     \o " (Relevance score: " \o format_2f(score) \o ")"

_generate_match_reasoning(p, rec, score) ==
  LET t == text_lower(rec)
      age_keywords == <<"infant", "child", "adolescent", "adult", "senior">>
      found == {i \in 1..Len(age_keywords) : icontains(t, age_keywords[i])}
      reasons ==
           (IF contains(lower(p.location_country), lower(rec.country))
              THEN <<"Guideline from " \o rec.country>> ELSE <<>>)
        \o (IF found # {}
              THEN <<"Age-appropriate ("
                     \o age_keywords[CHOOSE i \in found : \A j \in found : i <= j]
                     \o ")">>
              ELSE <<>>)
        \o (IF p.caries_risk = "high" /\ any_in({"caries", "decay", "fluoride"}, t)
              THEN <<"Addresses high caries risk">> ELSE <<>>)
        \o (IF p.periodontal_status # "healthy" /\ any_in({"periodontal", "gum"}, t)
              THEN <<"Relevant to gum health concerns">> ELSE <<>>)
        \o (IF rec.evidence_quality # NULL /\ icontains({rec.evidence_quality}, "high")
              THEN <<"High-quality evidence">> ELSE <<>>)
  IN join(IF reasons = <<>> THEN <<"General oral health recommendation">> ELSE reasons)
     \o " (Relevance score: " \o format_2f(score) \o ")"

\* d.get(key, '')
dict_get(d, key) == IF key \in DOMAIN d THEN d[key] ELSE <<>>

\* [action.strip('+ -') for action in priority_text.split('\n') if action.strip()]
extract_actions(priority_text) ==
  LET kept == SelectSeq(split_lines(priority_text), LAMBDA action : strip(action) # "")
  IN [i \in 1..Len(kept) |-> strip_bullets(kept[i])]

\* Exceptions that a query, the scorer or a write can raise.
Exceptions ==
  { [cls |-> "OperationalError", args |-> <<"database is locked">>],
    [cls |-> "DatabaseError", args |-> <<>>] }

\* str(e) of an exception of at most one argument
str(e) == IF e.args = <<>> THEN "" ELSE e.args[1]

\* The row made by AIRecommendationSession.objects.create(status='processing').
NewSession ==
  [status |-> "processing", error_message |-> "",
   gemini_analysis |-> <<>>, personalized_advice |-> <<>>,
   risk_assessment |-> <<>>, priority_actions |-> <<>>]

StatusChoices == {"pending", "processing", "completed", "error"}

\* Corpora of the session specification: every short corpus, and corpora
\* with more candidates than process_user_profile keeps.
Corpora ==
  {CorpusOf(rows) : rows \in SeqsUpTo(1..Len(Catalog), MaxCorpus)}
  \cup {CorpusOf([i \in 1..(ProcessLimit + n) |-> IF i % 3 = 1 THEN 9 ELSE 1]) :
          n \in 1..MaxExtra}

\* Answers of the narrative service in the session specification.
RunResponses ==
  { <<>>,
    <<"Here is my analysis.">>,
    << "Here is my analysis.", "**RISK ASSESSMENT:**", "  Brush twice daily  ", "",
       "**PRIORITY ACTIONS:**", "- Use fluoride toothpaste", "+ See your dentist -",
       "+", "1. Cut down on sugar", "   ", "  Brush twice daily  ",
       "Here is my analysis.", "- Use fluoride toothpaste",
       "**IMPORTANT NOTES:**", "RISK ASSESSMENT:" >> }

RunOutcomes == {ServiceRaises} \cup {ServiceReturns(r) : r \in RunResponses}

Init ==
  /\ profile \in RunProfiles
  /\ corpus \in Corpora
  /\ limit = DefaultLimit
  /\ api_key \in BOOLEAN
  /\ pc = "idle" /\ result = <<>>
  /\ NoRun

\* A call of RecommendationMatcher(profile).find_matching_recommendations(lim).
FindMatching ==
  /\ pc = "idle"
  /\ \E lim \in -1..MaxLimit :
       /\ limit' = lim
       /\ result' = find_matching_recommendations(profile, corpus, lim)
  /\ pc' = "matched"
  /\ UNCHANGED <<profile, corpus, api_key>>
  /\ RunUnchanged

\* process_user_profile, lines 516-522: the session is created as processing.
CreateSession ==
  /\ pc = "idle"
  /\ db_session' = NewSession
  /\ ai_session' = NewSession
  /\ pc' = "find"
  /\ UNCHANGED <<profile, corpus, limit, api_key, result, scored, idx, recommendations,
                 m2m, matches, ai_analysis, ai_raised, exc, admin_edits, cache,
                 calls, translator>>

\* lines 526-527
FindMatches ==
  /\ pc = "find"
  /\ limit' = ProcessLimit
  /\ scored' = find_matching_recommendations(profile, corpus, ProcessLimit)
  /\ idx' = 1
  /\ pc' = IF scored' = <<>> THEN "analyze" ELSE "add"
  /\ UNCHANGED <<profile, corpus, api_key, result, recommendations, db_session,
                 ai_session, m2m, matches, ai_analysis, ai_raised, exc,
                 admin_edits, cache, calls, translator>>

\* A query or the scorer raises inside find_matching_recommendations.
FindMatchesRaises ==
  /\ pc = "find"
  /\ \E e \in Exceptions : exc' = e @@ [at |-> "find"]
  /\ limit' = ProcessLimit
  /\ pc' = "except"
  /\ UNCHANGED <<profile, corpus, api_key, result, scored, idx, recommendations,
                 db_session, ai_session, m2m, matches, ai_analysis, ai_raised,
                 admin_edits, cache, calls, translator>>

\* lines 532-533
AddMatched ==
  /\ pc = "add"
  /\ recommendations' = Append(recommendations, scored[idx][1])
  /\ m2m' = m2m \cup {scored[idx][1].id}
  /\ pc' = "create"
  /\ UNCHANGED <<profile, corpus, limit, api_key, result, scored, idx, db_session,
                 ai_session, matches, ai_analysis, ai_raised, exc, admin_edits,
                 cache, calls, translator>>

\* matched_recommendations.add raises.
AddMatchedRaises ==
  /\ pc = "add"
  /\ recommendations' = Append(recommendations, scored[idx][1])
  /\ \E e \in Exceptions : exc' = e @@ [at |-> "add"]
  /\ pc' = "except"
  /\ UNCHANGED <<profile, corpus, limit, api_key, result, scored, idx, db_session,
                 ai_session, m2m, matches, ai_analysis, ai_raised, admin_edits,
                 cache, calls, translator>>

\* lines 535-552
CreateMatch ==
  /\ pc = "create"
  /\ LET recommendation == scored[idx][1]
         score == scored[idx][2]
     IN matches' = Append(matches,
          [recommendation |-> recommendation.id,
           relevance_score |-> score,
           match_reasoning |-> _generate_match_reasoning(profile, recommendation, score),
           priority_level |-> priority_level(score)])
  /\ idx' = idx + 1
  /\ pc' = IF idx = Len(scored) THEN "analyze" ELSE "add"
  /\ UNCHANGED <<profile, corpus, limit, api_key, result, scored, recommendations,
                 db_session, ai_session, m2m, ai_analysis, ai_raised, exc,
                 admin_edits, cache, calls, translator>>

\* RecommendationMatch.objects.create raises.
CreateMatchRaises ==
  /\ pc = "create"
  /\ \E e \in Exceptions : exc' = e @@ [at |-> "create"]
  /\ pc' = "except"
  /\ UNCHANGED <<profile, corpus, limit, api_key, result, scored, idx, recommendations,
                 db_session, ai_session, m2m, matches, ai_analysis, ai_raised,
                 admin_edits, cache, calls, translator>>

\* AnalyzeWith without the try/except around the service call: the
\* exception of the narrative service propagates.
AnalyzeWithPropagating(outcomes) ==
  /\ pc = "analyze"
  /\ \E outcome \in outcomes :
       IF api_key /\ outcome.raised
         THEN /\ ai_raised' = TRUE
              /\ exc' = [cls |-> "TimeoutError", args |-> <<"timed out">>, at |-> "analyze"]
              /\ pc' = "except"
              /\ UNCHANGED ai_analysis
         ELSE /\ ai_analysis' =
                   analyze_recommendations(api_key, profile, recommendations, outcome)
              /\ ai_raised' = FALSE
              /\ pc' = "save"
              /\ UNCHANGED exc
  /\ UNCHANGED <<profile, corpus, limit, api_key, result, scored, idx, recommendations,
                 db_session, ai_session, m2m, matches, admin_edits, cache, calls,
                 translator>>

\* line 555, with the answers of the narrative service drawn from outcomes
AnalyzeWith(outcomes) ==
  /\ pc = "analyze"
  /\ \E outcome \in outcomes :
       /\ ai_analysis' = analyze_recommendations(api_key, profile, recommendations, outcome)
       /\ ai_raised' = (api_key /\ outcome.raised)
  /\ pc' = "save"
  /\ UNCHANGED <<profile, corpus, limit, api_key, result, scored, idx, recommendations,
                 db_session, ai_session, m2m, matches, exc, admin_edits, cache,
                 calls, translator>>

Analyze == AnalyzeWith(RunOutcomes)

\* SaveCompleted for a try block in which a statement after the save can
\* still raise: the run goes on to the except block after storing completed.
SaveCompletedThenRaise ==
  /\ pc = "save"
  /\ ai_session' = [ai_session EXCEPT !.status = "completed"]
  /\ db_session' = ai_session'
  /\ exc' = [cls |-> "ValueError", args |-> <<"bad log record">>, at |-> "log"]
  /\ pc' = "except"
  /\ UNCHANGED <<profile, corpus, limit, api_key, result, scored, idx, recommendations,
                 m2m, matches, ai_analysis, ai_raised, admin_edits, cache, calls,
                 translator>>

\* lines 558-569
SaveCompleted ==
  /\ pc = "save"
  /\ ai_session' =
       [ai_session EXCEPT
          !.gemini_analysis = dict_get(ai_analysis, "gemini_analysis"),
          !.personalized_advice = dict_get(ai_analysis, "personalized_advice"),
          !.risk_assessment = dict_get(ai_analysis, "risk_assessment"),
          !.priority_actions =
             slice_to(extract_actions(dict_get(ai_analysis, "priority_actions")), MaxActions),
          !.status = "completed"]
  /\ db_session' = ai_session'
  /\ pc' = "done"
  /\ UNCHANGED <<profile, corpus, limit, api_key, result, scored, idx, recommendations,
                 m2m, matches, ai_analysis, ai_raised, exc, admin_edits, cache,
                 calls, translator>>

\* The except block storing the exception's class name instead of str(e).
HandleExceptionClassName ==
  /\ pc = "except"
  /\ ai_session' = [ai_session EXCEPT !.status = "error", !.error_message = exc.cls]
  /\ db_session' = ai_session'
  /\ pc' = "raised"
  /\ UNCHANGED <<profile, corpus, limit, api_key, result, scored, idx, recommendations,
                 m2m, matches, ai_analysis, ai_raised, exc, admin_edits, cache,
                 calls, translator>>

\* The except block setting the error status on the object without saving it.
HandleExceptionUnsaved ==
  /\ pc = "except"
  /\ ai_session' = [ai_session EXCEPT !.status = "error", !.error_message = str(exc)]
  /\ pc' = "raised"
  /\ UNCHANGED <<profile, corpus, limit, api_key, result, scored, idx, recommendations,
                 db_session, m2m, matches, ai_analysis, ai_raised, exc, admin_edits,
                 cache, calls, translator>>

\* lines 573-580: the except block; exc stays set, it is re-raised.
HandleException ==
  /\ pc = "except"
  /\ ai_session' = [ai_session EXCEPT !.status = "error", !.error_message = str(exc)]
  /\ db_session' = ai_session'
  /\ pc' = "raised"
  /\ UNCHANGED <<profile, corpus, limit, api_key, result, scored, idx, recommendations,
                 m2m, matches, ai_analysis, ai_raised, exc, admin_edits, cache,
                 calls, translator>>

\* AIRecommendationSessionAdmin: status is a field of the change form and is
\* not among readonly_fields.
AdminChangeStatus ==
  /\ db_session.status # "none"
  /\ admin_edits < MaxAdminEdits
  /\ \E s \in StatusChoices \ {db_session.status} :
       db_session' = [db_session EXCEPT !.status = s]
  /\ admin_edits' = admin_edits + 1
  /\ UNCHANGED <<profile, corpus, limit, api_key, pc, result, scored, idx,
                 recommendations, ai_session, m2m, matches, ai_analysis, ai_raised, exc,
                 cache, calls, translator>>

Next ==
  \/ FindMatching
  \/ CreateSession
  \/ FindMatches
  \/ FindMatchesRaises
  \/ AddMatched
  \/ AddMatchedRaises
  \/ CreateMatch
  \/ CreateMatchRaises
  \/ Analyze
  \/ SaveCompleted
  \/ HandleException
  \/ AdminChangeStatus

Spec == Init /\ [][Next]_vars

(***************************************************************************)
(* The four profile dimensions of the scorer, each called on its own.      *)
(***************************************************************************)
InitDimension ==
  /\ profile \in
       Profiles \cup
       {[p EXCEPT !.location_country = l] :
          p \in {q \in Profiles : q.location_country = "England"},
          l \in {"Wales", "New England"}}
  /\ \E k \in 1..Len(Catalog) : corpus = CorpusOf(<<k>>)
  /\ limit = 0 /\ api_key = FALSE
  /\ pc = "dimension" /\ result = <<>>
  /\ NoRun

\* self._score_age_match(recommendation)
ScoreAgeMatch ==
  /\ pc = "dimension"
  /\ result' = [dimension |-> "age", value |-> _score_age_match(profile, corpus[1])]
  /\ pc' = "dimension_scored"
  /\ UNCHANGED <<profile, corpus, limit, api_key>>
  /\ RunUnchanged

\* self._score_condition_match(recommendation)
ScoreConditionMatch ==
  /\ pc = "dimension"
  /\ result' = [dimension |-> "condition",
                value |-> _score_condition_match(profile, corpus[1])]
  /\ pc' = "dimension_scored"
  /\ UNCHANGED <<profile, corpus, limit, api_key>>
  /\ RunUnchanged

\* self._score_geographic_match(recommendation)
ScoreGeographicMatch ==
  /\ pc = "dimension"
  /\ result' = [dimension |-> "geographic",
                value |-> _score_geographic_match(profile, corpus[1])]
  /\ pc' = "dimension_scored"
  /\ UNCHANGED <<profile, corpus, limit, api_key>>
  /\ RunUnchanged

\* self._score_risk_alignment(recommendation)
ScoreRiskAlignment ==
  /\ pc = "dimension"
  /\ result' = [dimension |-> "risk",
                value |-> _score_risk_alignment(profile, corpus[1])]
  /\ pc' = "dimension_scored"
  /\ UNCHANGED <<profile, corpus, limit, api_key>>
  /\ RunUnchanged

NextDimension ==
  \/ ScoreAgeMatch
  \/ ScoreConditionMatch
  \/ ScoreGeographicMatch
  \/ ScoreRiskAlignment

SpecDimension == InitDimension /\ [][NextDimension]_vars

(***************************************************************************)
(* The three steps of the candidate filter, each applied to a queryset of  *)
(* one recommendation.                                                     *)
(***************************************************************************)
\* The catalog, with a guideline from Australia and one from Wales.
FilterRows ==
  Catalog \o
  << [title |-> {"Fluoride"}, text |-> {"children"},
      target_population |-> {"children"}, country |-> "Australia",
      org |-> "Australian Dental Association",
      evidence_quality |-> "Moderate", strength |-> "Strong"],
     [title |-> {"Oral health"}, text |-> {"adults"},
      target_population |-> {}, country |-> "Wales", org |-> "Public Health Wales",
      evidence_quality |-> NULL, strength |-> NULL] >>

FilterLocations ==
  {"United Kingdom", "Ukraine", "England", "Scotland", "New England",
   "United States", "South America", "Canada", "Australia", "France"}

FilterProfiles ==
  [age_group : AgeGroups, location_country : FilterLocations,
   caries_risk : {"low", "high"},
   periodontal_status : {"healthy", "gingivitis", "periodontitis"},
   fluoride_exposure : {"toothpaste"},
   has_orthodontics : BOOLEAN, has_diabetes : BOOLEAN,
   is_pregnant : BOOLEAN, has_dry_mouth : BOOLEAN,
   diet_sugar_intake : {"low"}]

InitFilter ==
  /\ profile \in FilterProfiles
  /\ \E k \in 1..Len(FilterRows) : corpus = << [id |-> 1] @@ FilterRows[k] >>
  /\ limit = 0 /\ api_key = FALSE
  /\ pc = "filter" /\ result = <<>>
  /\ NoRun

\* queryset = self._apply_geographic_filter(queryset); country_filters are
\* the country terms OR-ed into the Q object, none when the method returns
\* the queryset as it is.
ApplyGeographicFilter ==
  /\ pc = "filter"
  /\ result' = [step |-> "geographic",
                country_filters |-> geo_bucket(profile),
                queryset |-> SelectSeq(corpus,
                               LAMBDA rec : _apply_geographic_filter(profile, rec))]
  /\ pc' = "filtered"
  /\ UNCHANGED <<profile, corpus, limit, api_key>>
  /\ RunUnchanged

\* queryset = self._apply_age_filter(queryset)
ApplyAgeFilter ==
  /\ pc = "filter"
  /\ result' = [step |-> "age",
                queryset |-> SelectSeq(corpus, LAMBDA rec : _apply_age_filter(profile, rec))]
  /\ pc' = "filtered"
  /\ UNCHANGED <<profile, corpus, limit, api_key>>
  /\ RunUnchanged

\* queryset = self._apply_condition_filters(queryset)
ApplyConditionFilters ==
  /\ pc = "filter"
  /\ result' = [step |-> "condition",
                queryset |-> SelectSeq(corpus,
                               LAMBDA rec : _apply_condition_filters(profile, rec))]
  /\ pc' = "filtered"
  /\ UNCHANGED <<profile, corpus, limit, api_key>>
  /\ RunUnchanged

NextFilter == ApplyGeographicFilter \/ ApplyAgeFilter \/ ApplyConditionFilters

SpecFilter == InitFilter /\ [][NextFilter]_vars

(***************************************************************************)
(* UserProfileForm.clean_location_country, applied to the submitted value  *)
(* and then to its own output.                                             *)
(***************************************************************************)
\* Values of the location_country field as submitted: aliases and other
\* names in several spellings, blank input, and what the method returns.
\* A character outside ASCII is written {U+hhhh}.
CountryInputs ==
  { "", "   ", "  america ", "  england ",
    "  france ", "  great britain ", "  new zealand ", "  northern ireland ",
    "  scotland ", "  south africa ", "  uk ", "  united kingdom ",
    "  united states ", "  us ", "  usa ", "  wales ",
    "  {U+017F}cotland ", "AMERICA", "America", "America ",
    "ENGLAND", "England", "England ", "FRANCE",
    "France", "France ", "GREAT BRITAIN", "Great Britain",
    "Great Britain ", "NEW ZEALAND", "NORTHERN IRELAND", "New Zealand",
    "New Zealand ", "Northern Ireland", "Northern Ireland ", "SCOTLAND",
    "SOUTH AFRICA", "Scotland", "Scotland ", "South Africa",
    "South Africa ", "UK", "UNITED KINGDOM", "UNITED STATES",
    "US", "USA", "Uk", "Uk ",
    "United Kingdom", "United Kingdom ", "United States", "United States ",
    "Us", "Us ", "Usa", "Usa ",
    "WALES", "Wales", "Wales ", "america",
    "england", "france", "great britain", "new zealand",
    "northern ireland", "scotland", "south africa", "uk",
    "united kingdom", "united states", "us", "usa",
    "wales", "{U+017F}cotland" }

\* str.title()
title(s) ==
  CASE s = "AMERICA" -> "America"
    [] s = "ENGLAND" -> "England"
    [] s = "FRANCE" -> "France"
    [] s = "GREAT BRITAIN" -> "Great Britain"
    [] s = "NEW ZEALAND" -> "New Zealand"
    [] s = "NORTHERN IRELAND" -> "Northern Ireland"
    [] s = "SCOTLAND" -> "Scotland"
    [] s = "SOUTH AFRICA" -> "South Africa"
    [] s = "UK" -> "Uk"
    [] s = "UNITED KINGDOM" -> "United Kingdom"
    [] s = "UNITED STATES" -> "United States"
    [] s = "US" -> "Us"
    [] s = "USA" -> "Usa"
    [] s = "WALES" -> "Wales"
    [] s = "america" -> "America"
    [] s = "england" -> "England"
    [] s = "france" -> "France"
    [] s = "great britain" -> "Great Britain"
    [] s = "new zealand" -> "New Zealand"
    [] s = "northern ireland" -> "Northern Ireland"
    [] s = "scotland" -> "Scotland"
    [] s = "south africa" -> "South Africa"
    [] s = "uk" -> "Uk"
    [] s = "united kingdom" -> "United Kingdom"
    [] s = "united states" -> "United States"
    [] s = "us" -> "Us"
    [] s = "usa" -> "Usa"
    [] s = "wales" -> "Wales"
    [] s = "{U+017F}cotland" -> "Scotland"
    [] OTHER -> s

country_mapping ==
  [k \in {"uk", "england", "scotland", "wales", "northern ireland"} |-> "United Kingdom"]
  @@ [k \in {"usa", "us", "america"} |-> "United States"]

\* clean_location_country looking the stripped value up as typed.
clean_location_country_as_typed(cleaned_data) ==
  LET country == strip(cleaned_data.location_country) IN
  IF country = ""
    THEN [raised |-> "ValidationError",
          message |-> "Please enter your country or location."]
  ELSE IF country \in DOMAIN country_mapping
    THEN [raised |-> "none", value |-> country_mapping[country]]
  ELSE [raised |-> "none", value |-> title(country)]

clean_location_country(cleaned_data) ==
  LET country == strip(cleaned_data.location_country) IN
  IF country = ""
    THEN [raised |-> "ValidationError",
          message |-> "Please enter your country or location."]
  ELSE LET country_lower == lower(country) IN
       IF country_lower \in DOMAIN country_mapping
         THEN [raised |-> "none", value |-> country_mapping[country_lower]]
       ELSE [raised |-> "none", value |-> title(country)]

\* profile holds the cleaned_data of the forms submitted so far, the last
\* being the one that is cleaned.
InitForm ==
  /\ \E c \in CountryInputs : profile = << [location_country |-> c] >>
  /\ corpus = <<>> /\ limit = 0 /\ api_key = FALSE
  /\ pc = "clean" /\ result = <<>>
  /\ NoRun

CleanLocationCountry ==
  /\ pc = "clean"
  /\ result' = clean_location_country(profile[Len(profile)])
  /\ pc' = IF result'.raised = "none" THEN "cleaned" ELSE "invalid"
  /\ UNCHANGED <<profile, corpus, limit, api_key>>
  /\ RunUnchanged

\* The returned value is submitted again.
SubmitCleaned ==
  /\ pc = "cleaned" /\ Len(profile) = 1
  /\ profile' = Append(profile, [location_country |-> result.value])
  /\ pc' = "clean"
  /\ UNCHANGED <<corpus, limit, api_key, result>>
  /\ RunUnchanged

NextForm == CleanLocationCountry \/ SubmitCleaned

SpecForm == InitForm /\ [][NextForm]_vars

(***************************************************************************)
(* TranslationService.translate_text.  profile holds the arguments of the  *)
(* call in progress, result its local `translation` and then its return    *)
(* value.  None is NULL.  The md5 prefix in the cache key is represented   *)
(* by the text itself.                                                     *)
(***************************************************************************)
SUPPORTED_LANGUAGES ==
  {"en", "es", "fr", "de", "it", "pt", "ru", "zh", "ja", "ko", "ar", "hi", "tr", "nl",
   "sv", "da", "no", "fi", "pl", "cs", "hu", "ro", "el", "he", "th", "vi", "id", "ms",
   "uk", "bg", "hr", "sk", "sl", "lt", "lv", "et"}

get_cache_key(text, target_lang, source_lang) ==
  <<"translation", source_lang, target_lang, text>>

\* Python truthiness of a translation: neither None nor ''.
truthy(translation) == translation # NULL /\ translation # ""

\* What a provider's HTTP request comes to: a JSON answer with the
\* translated text (possibly empty), a JSON answer without the expected
\* keys, or a failure (timeout, connection error, HTTP error status).
ProviderAnswers(name) ==
  { [kind |-> "json", translatedText |-> "Cepillarse (" \o name \o ")"],
    [kind |-> "json", translatedText |-> ""],
    [kind |-> "malformed"],
    [kind |-> "raises"] }

\* The value a translate_with_* method returns for an answer: its try block
\* catches every exception and the method then returns None.
provider_result(answer) ==
  IF answer.kind = "json" THEN answer.translatedText ELSE NULL

TranslateTexts == {"", "   ", "Brush twice daily", "Floss"}
TargetLangs == {"en", "es", "uk", "tlh"}

InitTranslate ==
  /\ profile = <<>> /\ corpus = <<>> /\ limit = 0 /\ api_key = FALSE
  /\ pc = "idle" /\ result = <<>>
  /\ scored = <<>> /\ idx = 0 /\ recommendations = <<>>
  /\ db_session = NoSession /\ ai_session = NoSession
  /\ m2m = {} /\ matches = <<>> /\ ai_analysis = <<>>
  /\ ai_raised = FALSE /\ exc = NoExc /\ admin_edits = 0
  /\ cache = <<>> /\ calls = <<>>
  /\ translator \in [google_api_key : {NULL, "key"}]

TranslateUnchanged ==
  UNCHANGED <<corpus, limit, api_key, scored, idx, recommendations, db_session,
              ai_session, m2m, matches, ai_analysis, ai_raised, exc, admin_edits,
              translator>>

\* lines 123-131: the call and its three early returns.
TranslateText ==
  /\ pc = "idle"
  /\ \E text \in TranslateTexts, target_lang \in TargetLangs :
       /\ profile' = [text |-> text, target_lang |-> target_lang, source_lang |-> "en"]
       /\ IF \/ text = "" \/ strip(text) = ""
             \/ target_lang = "en"
             \/ target_lang \notin SUPPORTED_LANGUAGES
            THEN pc' = "returned" /\ result' = text
            ELSE pc' = "cache_get" /\ result' = NULL
  /\ calls' = <<>>
  /\ UNCHANGED cache
  /\ TranslateUnchanged

\* lines 134-137
CacheGet ==
  /\ pc = "cache_get"
  /\ LET cache_key == get_cache_key(profile.text, profile.target_lang, profile.source_lang)
         cached_translation == IF cache_key \in DOMAIN cache THEN cache[cache_key] ELSE NULL
     IN IF truthy(cached_translation)
          THEN pc' = "returned" /\ result' = cached_translation
          ELSE pc' = "google" /\ UNCHANGED result
  /\ calls' = Append(calls, "cache.get")
  /\ UNCHANGED <<profile, cache>>
  /\ TranslateUnchanged

\* TranslateWithGoogle for a translate_text that calls the fallback
\* provider whatever Google returned.
TranslateWithGoogleThenFallback ==
  /\ pc = "google"
  /\ IF translator.google_api_key = NULL
       THEN result' = NULL /\ UNCHANGED calls
       ELSE \E answer \in ProviderAnswers("google") :
               /\ result' = provider_result(answer)
               /\ calls' = Append(calls, "google")
  /\ pc' = "libre"
  /\ UNCHANGED <<profile, cache>>
  /\ TranslateUnchanged

\* line 140 and translate_with_google, then the test of line 143
TranslateWithGoogle ==
  /\ pc = "google"
  /\ IF translator.google_api_key = NULL
       THEN result' = NULL /\ UNCHANGED calls
       ELSE \E answer \in ProviderAnswers("google") :
               /\ result' = provider_result(answer)
               /\ calls' = Append(calls, "google")
  /\ pc' = IF truthy(result') THEN "cache_set" ELSE "libre"
  /\ UNCHANGED <<profile, cache>>
  /\ TranslateUnchanged

\* line 144 and translate_with_libretranslate, then lines 147-149
TranslateWithLibretranslate ==
  /\ pc = "libre"
  /\ \E answer \in ProviderAnswers("libretranslate") :
       LET translation == provider_result(answer)
       IN IF truthy(translation)
            THEN pc' = "cache_set" /\ result' = translation
            ELSE pc' = "returned" /\ result' = profile.text
  /\ calls' = Append(calls, "libretranslate")
  /\ UNCHANGED <<profile, cache>>
  /\ TranslateUnchanged

\* lines 152-154
CacheSet ==
  /\ pc = "cache_set"
  /\ LET cache_key == get_cache_key(profile.text, profile.target_lang, profile.source_lang)
     IN cache' = [k \in DOMAIN cache \cup {cache_key} |->
                    IF k = cache_key THEN result ELSE cache[k]]
  /\ calls' = Append(calls, "cache.set")
  /\ pc' = "returned"
  /\ UNCHANGED <<profile, result>>
  /\ TranslateUnchanged

\* The caller takes the value; the next call can start.
TranslateReturned ==
  /\ pc = "returned"
  /\ pc' = "idle"
  /\ UNCHANGED <<profile, result, cache, calls>>
  /\ TranslateUnchanged

\* An entry of the cache times out or is culled.
CacheTimeout ==
  /\ \E cache_key \in DOMAIN cache :
       cache' = [k \in DOMAIN cache \ {cache_key} |-> cache[k]]
  /\ UNCHANGED <<profile, pc, result, calls>>
  /\ TranslateUnchanged

NextTranslate ==
  \/ TranslateText
  \/ CacheGet
  \/ TranslateWithGoogle
  \/ TranslateWithLibretranslate
  \/ CacheSet
  \/ TranslateReturned
  \/ CacheTimeout

SpecTranslate == InitTranslate /\ [][NextTranslate]_vars

(***************************************************************************)
(* The user-facing views of ai_recommendations: the profile form view,     *)
(* which calls process_user_profile, and the session-status endpoint.      *)
(* `result` holds the last response sent to the user.  The count and time  *)
(* fields of the status response are left out.                             *)
(***************************************************************************)
GenericErrorMessage ==
  "We encountered an error processing your profile. Please try again or contact support if the problem persists."

InitViews ==
  /\ profile \in RunProfiles
  /\ corpus \in {CorpusOf(rows) : rows \in SeqsUpTo(1..Len(Catalog), 1)}
  /\ limit = DefaultLimit
  /\ api_key \in BOOLEAN
  /\ pc = "idle" /\ result = <<>>
  /\ NoRun

\* form_valid, lines 40-47: the run returned, the user is redirected.
FormValidRedirect ==
  /\ pc = "done"
  /\ result' = [view |-> "form_valid", status_code |-> 302, messages |-> <<>>,
                data |-> [location |-> "ai_recommendations:results"]]
  /\ pc' = "redirected"
  /\ UNCHANGED <<profile, corpus, limit, api_key>>
  /\ RunUnchanged

\* form_valid, lines 49-55, and form_invalid: the run raised.
FormValidError ==
  /\ pc = "raised"
  /\ result' = [view |-> "form_valid", status_code |-> 200,
                messages |-> <<GenericErrorMessage,
                               "Please correct the errors below and try again.">>,
                data |-> [template |-> "ai_recommendations/profile_form.html"]]
  /\ pc' = "form_invalid"
  /\ UNCHANGED <<profile, corpus, limit, api_key>>
  /\ RunUnchanged

\* ajax_session_status: a GET of the status of the profile's session.
ajax_session_status ==
  /\ result' =
       IF db_session = NoSession
         THEN [view |-> "ajax_session_status", status_code |-> 404, messages |-> <<>>,
               data |-> [status |-> "not_found"]]
       ELSE [view |-> "ajax_session_status", status_code |-> 200, messages |-> <<>>,
             data |-> IF db_session.status = "error"
                        THEN [status |-> db_session.status,
                              error_message |-> db_session.error_message]
                        ELSE [status |-> db_session.status]]
  /\ UNCHANGED <<profile, corpus, limit, api_key, pc>>
  /\ RunUnchanged

NextViews ==
  \/ CreateSession
  \/ FindMatches
  \/ FindMatchesRaises
  \/ AddMatched
  \/ AddMatchedRaises
  \/ CreateMatch
  \/ CreateMatchRaises
  \/ Analyze
  \/ SaveCompleted
  \/ HandleException
  \/ FormValidRedirect
  \/ FormValidError
  \/ ajax_session_status

SpecViews == InitViews /\ [][NextViews]_vars

(***************************************************************************)
(* Two runs of process_user_profile, started by two requests for two       *)
(* different profiles, interleaved at their database reads and writes.     *)
(* Here profile, pc, scored, idx, recommendations, ai_session,             *)
(* ai_analysis, ai_raised and exc hold one value per run; db_session is    *)
(* the session table in primary-key order, m2m the rows of the             *)
(* matched_recommendations table and matches the RecommendationMatch       *)
(* table.  Each request builds its own AIRecommendationService.            *)
(***************************************************************************)
Runs == {1, 2}

\* Corpora of the two-run specification, over rows that the run profiles match.
TwoCorpora == {CorpusOf(rows) : rows \in SeqsUpTo({1, 5, 6}, MaxCorpus)}

TwoOutcomes == {ServiceRaises, ServiceReturns(<<"Here is my analysis.">>)}

InitTwo ==
  /\ profile \in {<<p, q>> : p \in RunProfiles, q \in RunProfiles}
               \ {<<p, p>> : p \in RunProfiles}
  /\ corpus \in TwoCorpora
  /\ limit = ProcessLimit
  /\ api_key \in BOOLEAN
  /\ pc = <<"idle", "idle">> /\ result = <<>>
  /\ scored = << <<>>, <<>> >> /\ idx = <<0, 0>>
  /\ recommendations = << <<>>, <<>> >>
  /\ db_session = <<>> /\ ai_session = <<NoSession, NoSession>>
  /\ m2m = {} /\ matches = <<>>
  /\ ai_analysis = << <<>>, <<>> >> /\ ai_raised = <<FALSE, FALSE>>
  /\ exc = <<NoExc, NoExc>> /\ admin_edits = 0
  /\ cache = <<>> /\ calls = <<>> /\ translator = <<>>

TwoFixed == UNCHANGED <<profile, corpus, limit, api_key, result, admin_edits, cache, calls,
                 translator>>

\* lines 516-522: objects.create inserts a row and returns it with its key.
TwoCreateSession(r) ==
  /\ pc[r] = "idle"
  /\ LET row == [pk |-> Len(db_session) + 1, user_profile |-> r] @@ NewSession
     IN /\ db_session' = Append(db_session, row)
        /\ ai_session' = [ai_session EXCEPT ![r] = row]
  /\ pc' = [pc EXCEPT ![r] = "find"]
  /\ TwoFixed
  /\ UNCHANGED <<scored, idx, recommendations, m2m, matches, ai_analysis, ai_raised, exc>>

\* lines 526-527
TwoFindMatches(r) ==
  /\ pc[r] = "find"
  /\ LET found == find_matching_recommendations(profile[r], corpus, ProcessLimit)
     IN /\ scored' = [scored EXCEPT ![r] = found]
        /\ pc' = [pc EXCEPT ![r] = IF found = <<>> THEN "analyze" ELSE "add"]
  /\ idx' = [idx EXCEPT ![r] = 1]
  /\ TwoFixed
  /\ UNCHANGED <<recommendations, db_session, ai_session, m2m, matches, ai_analysis,
                 ai_raised, exc>>

TwoFindMatchesRaises(r) ==
  /\ pc[r] = "find"
  /\ \E e \in Exceptions : exc' = [exc EXCEPT ![r] = e @@ [at |-> "find"]]
  /\ pc' = [pc EXCEPT ![r] = "except"]
  /\ TwoFixed
  /\ UNCHANGED <<scored, idx, recommendations, db_session, ai_session, m2m, matches,
                 ai_analysis, ai_raised>>

\* lines 532-533
TwoAddMatched(r) ==
  /\ pc[r] = "add"
  /\ recommendations' =
       [recommendations EXCEPT ![r] = Append(@, scored[r][idx[r]][1])]
  /\ m2m' = m2m \cup {<<ai_session[r].pk, scored[r][idx[r]][1].id>>}
  /\ pc' = [pc EXCEPT ![r] = "create"]
  /\ TwoFixed
  /\ UNCHANGED <<scored, idx, db_session, ai_session, matches, ai_analysis, ai_raised, exc>>

TwoAddMatchedRaises(r) ==
  /\ pc[r] = "add"
  /\ recommendations' =
       [recommendations EXCEPT ![r] = Append(@, scored[r][idx[r]][1])]
  /\ \E e \in Exceptions : exc' = [exc EXCEPT ![r] = e @@ [at |-> "add"]]
  /\ pc' = [pc EXCEPT ![r] = "except"]
  /\ TwoFixed
  /\ UNCHANGED <<scored, idx, db_session, ai_session, m2m, matches, ai_analysis, ai_raised>>

\* TwoCreateMatch attaching the match to the most recently created session
\* instead of the session of its own run.
TwoCreateMatchLatest(r) ==
  /\ pc[r] = "create"
  /\ LET recommendation == scored[r][idx[r]][1]
         score == scored[r][idx[r]][2]
     IN matches' = Append(matches,
          [ai_session |-> Len(db_session),
           recommendation |-> recommendation.id,
           relevance_score |-> score,
           match_reasoning |-> _generate_match_reasoning(profile[r], recommendation, score),
           priority_level |-> priority_level(score)])
  /\ idx' = [idx EXCEPT ![r] = @ + 1]
  /\ pc' = [pc EXCEPT ![r] = IF idx[r] = Len(scored[r]) THEN "analyze" ELSE "add"]
  /\ TwoFixed
  /\ UNCHANGED <<scored, recommendations, db_session, ai_session, m2m, ai_analysis,
                 ai_raised, exc>>

\* lines 535-552
TwoCreateMatch(r) ==
  /\ pc[r] = "create"
  /\ LET recommendation == scored[r][idx[r]][1]
         score == scored[r][idx[r]][2]
     IN matches' = Append(matches,
          [ai_session |-> ai_session[r].pk,
           recommendation |-> recommendation.id,
           relevance_score |-> score,
           match_reasoning |-> _generate_match_reasoning(profile[r], recommendation, score),
           priority_level |-> priority_level(score)])
  /\ idx' = [idx EXCEPT ![r] = @ + 1]
  /\ pc' = [pc EXCEPT ![r] = IF idx[r] = Len(scored[r]) THEN "analyze" ELSE "add"]
  /\ TwoFixed
  /\ UNCHANGED <<scored, recommendations, db_session, ai_session, m2m, ai_analysis,
                 ai_raised, exc>>

TwoCreateMatchRaises(r) ==
  /\ pc[r] = "create"
  /\ \E e \in Exceptions : exc' = [exc EXCEPT ![r] = e @@ [at |-> "create"]]
  /\ pc' = [pc EXCEPT ![r] = "except"]
  /\ TwoFixed
  /\ UNCHANGED <<scored, idx, recommendations, db_session, ai_session, m2m, matches,
                 ai_analysis, ai_raised>>

\* line 555
TwoAnalyze(r) ==
  /\ pc[r] = "analyze"
  /\ \E outcome \in TwoOutcomes :
       /\ ai_analysis' = [ai_analysis EXCEPT ![r] =
             analyze_recommendations(api_key, profile[r], recommendations[r], outcome)]
       /\ ai_raised' = [ai_raised EXCEPT ![r] = api_key /\ outcome.raised]
  /\ pc' = [pc EXCEPT ![r] = "save"]
  /\ TwoFixed
  /\ UNCHANGED <<scored, idx, recommendations, db_session, ai_session, m2m, matches, exc>>

\* lines 558-569: save() updates the row of the object's primary key.
TwoSaveCompleted(r) ==
  /\ pc[r] = "save"
  /\ LET saved ==
          [ai_session[r] EXCEPT
             !.gemini_analysis = dict_get(ai_analysis[r], "gemini_analysis"),
             !.personalized_advice = dict_get(ai_analysis[r], "personalized_advice"),
             !.risk_assessment = dict_get(ai_analysis[r], "risk_assessment"),
             !.priority_actions =
                slice_to(extract_actions(dict_get(ai_analysis[r], "priority_actions")),
                         MaxActions),
             !.status = "completed"]
     IN /\ ai_session' = [ai_session EXCEPT ![r] = saved]
        /\ db_session' = [db_session EXCEPT ![saved.pk] = saved]
  /\ pc' = [pc EXCEPT ![r] = "done"]
  /\ TwoFixed
  /\ UNCHANGED <<scored, idx, recommendations, m2m, matches, ai_analysis, ai_raised, exc>>

\* lines 573-580
TwoHandleException(r) ==
  /\ pc[r] = "except"
  /\ LET saved == [ai_session[r] EXCEPT !.status = "error",
                                        !.error_message = str(exc[r])]
     IN /\ ai_session' = [ai_session EXCEPT ![r] = saved]
        /\ db_session' = [db_session EXCEPT ![saved.pk] = saved]
  /\ pc' = [pc EXCEPT ![r] = "raised"]
  /\ TwoFixed
  /\ UNCHANGED <<scored, idx, recommendations, m2m, matches, ai_analysis, ai_raised, exc>>

NextTwo ==
  \/ \E r \in Runs : TwoCreateSession(r)
  \/ \E r \in Runs : TwoFindMatches(r)
  \/ \E r \in Runs : TwoFindMatchesRaises(r)
  \/ \E r \in Runs : TwoAddMatched(r)
  \/ \E r \in Runs : TwoAddMatchedRaises(r)
  \/ \E r \in Runs : TwoCreateMatch(r)
  \/ \E r \in Runs : TwoCreateMatchRaises(r)
  \/ \E r \in Runs : TwoAnalyze(r)
  \/ \E r \in Runs : TwoSaveCompleted(r)
  \/ \E r \in Runs : TwoHandleException(r)

SpecTwo == InitTwo /\ [][NextTwo]_vars

(***************************************************************************)
(* process_user_profile when the writes of the final status can fail       *)
(***************************************************************************)
InitFailingSave ==
  /\ profile \in RunProfiles
  /\ corpus \in TwoCorpora
  /\ limit = ProcessLimit
  /\ api_key \in BOOLEAN
  /\ pc = "idle" /\ result = <<>>
  /\ NoRun

\* lines 558-569 when ai_session.save() raises: the fields are set on the
\* object, the row is not written, the except block runs.
SaveCompletedRaises ==
  /\ pc = "save"
  /\ ai_session' =
       [ai_session EXCEPT
          !.gemini_analysis = dict_get(ai_analysis, "gemini_analysis"),
          !.personalized_advice = dict_get(ai_analysis, "personalized_advice"),
          !.risk_assessment = dict_get(ai_analysis, "risk_assessment"),
          !.priority_actions =
             slice_to(extract_actions(dict_get(ai_analysis, "priority_actions")), MaxActions),
          !.status = "completed"]
  /\ \E e \in Exceptions : exc' = e @@ [at |-> "save"]
  /\ pc' = "except"
  /\ UNCHANGED <<profile, corpus, limit, api_key, result, scored, idx, recommendations,
                 db_session, m2m, matches, ai_analysis, ai_raised, admin_edits,
                 cache, calls, translator>>

\* lines 573-576 when the ai_session.save() of the except block raises: the
\* row is not written and the exception of the save leaves the function.
HandleExceptionSaveRaises ==
  /\ pc = "except"
  /\ ai_session' = [ai_session EXCEPT !.status = "error", !.error_message = str(exc)]
  /\ \E e \in Exceptions : exc' = e @@ [at |-> "except"]
  /\ pc' = "raised"
  /\ UNCHANGED <<profile, corpus, limit, api_key, result, scored, idx, recommendations,
                 db_session, m2m, matches, ai_analysis, ai_raised, admin_edits,
                 cache, calls, translator>>

NextFailingSave ==
  \/ CreateSession
  \/ FindMatches
  \/ FindMatchesRaises
  \/ AddMatched
  \/ AddMatchedRaises
  \/ CreateMatch
  \/ CreateMatchRaises
  \/ AnalyzeWith(TwoOutcomes)
  \/ SaveCompleted
  \/ SaveCompletedRaises
  \/ HandleException
  \/ HandleExceptionSaveRaises

SpecFailingSave == InitFailingSave /\ [][NextFailingSave]_vars

(***************************************************************************)
(* guidelines.views.home: the random selection of top recommendations      *)
(***************************************************************************)
TopCount == 10
PerCountry == 5
MaxHomeRecs == 3

\* Country names in the order of Country.Meta.ordering = ['name'].  The
\* code is unique per country, so the name stands for the code as well.
CountriesByName ==
  << "Australia", "Brazil", "Canada", "Denmark", "England", "France", "Germany",
     "India", "Japan", "Kenya", "Scotland" >>

\* Recommendation tables in storage order: every short table, one country
\* with more good recommendations than a country list takes, and tables
\* with more good recommendations, or more countries, than the page shows.
HomeCorpora ==
  LET HomeRec(i, c, q, st) ==
        [id |-> i, country |-> c, evidence_quality |-> q, strength |-> st]
      HomeKinds ==
        { <<"England", "High", "Strong">>, <<"England", "High", "Weak">>,
          <<"England", "Moderate", "Strong">>, <<"England", "Low", "Strong">>,
          <<"France", "High", "Moderate">>, <<"France", "Moderate", NULL>>,
          <<"France", NULL, "Strong">> }
      \* one recommendation in each of the first n countries other than England
      OnePerCountry(n, first) ==
        [i \in 1..n |-> HomeRec(first + i - 1,
                                CountriesByName[IF i < 5 THEN i ELSE i + 1], "High", "Strong")]
  IN
  { [i \in 1..Len(ks) |-> HomeRec(i, ks[i][1], ks[i][2], ks[i][3])] :
      ks \in SeqsUpTo(HomeKinds, MaxHomeRecs) }
  \cup
  { << HomeRec(1, "England", "Moderate", "Weak"), HomeRec(2, "England", "High", "Strong"),
       HomeRec(3, "England", "Low", "Strong"), HomeRec(4, "England", "Moderate", "Strong"),
       HomeRec(5, "England", "High", "Weak"), HomeRec(6, "England", "High", "Strong"),
       HomeRec(7, "England", "Moderate", NULL), HomeRec(8, "England", "High", NULL) >>,
    OnePerCountry(9, 1) \o
      << HomeRec(10, "England", "High", "Strong"), HomeRec(11, "England", "Moderate", "Weak"),
         HomeRec(12, "England", "High", "Weak") >>,
    OnePerCountry(8, 1) \o
      << HomeRec(9, "England", "High", "Strong"), HomeRec(10, "England", "Moderate", "Weak"),
         HomeRec(11, "England", "High", "Weak"), HomeRec(12, "England", "Low", "Weak") >>,
    OnePerCountry(10, 1) \o << HomeRec(11, "England", "Moderate", "Strong") >> }

\* order_by('evidence_priority', 'strength_priority') on the Case/When
\* annotations evidence_order and strength_order; rows with equal keys stay
\* in storage order.
RECURSIVE order_by_priority(_)
order_by_priority(recs) ==
  IF recs = <<>> THEN <<>>
  ELSE LET evidence_priority(r) ==
             CASE r.evidence_quality = "High" -> 1
               [] r.evidence_quality = "Moderate" -> 2
               [] r.evidence_quality = "Low" -> 3
               [] r.evidence_quality = "Very Low" -> 4
               [] OTHER -> 5
           strength_priority(r) ==
             CASE r.strength = "Strong" -> 1
               [] r.strength = "Moderate" -> 2
               [] r.strength = "Weak" -> 3
               [] OTHER -> 4
           key(r) == evidence_priority(r) * 10 + strength_priority(r)
           x == Head(recs)
           rest == order_by_priority(Tail(recs))
       IN SelectSeq(rest, LAMBDA y : key(y) < key(x)) \o <<x>>
          \o SelectSeq(rest, LAMBDA y : key(y) >= key(x))

\* The high_quality_recs queryset.
high_quality_recs(recs) ==
  order_by_priority(SelectSeq(recs, LAMBDA r : r.evidence_quality \in {"High", "Moderate"}))

\* queryset[:n]
first_n(s, n) == [i \in 1..(IF Len(s) < n THEN Len(s) ELSE n) |-> s[i]]

\* list.remove of the element at position k of a list without repetitions.
remove_at(s, k) == [i \in 1..(Len(s) - 1) |-> IF i < k THEN s[i] ELSE s[i + 1]]

RECURSIVE extend_all(_, _)
\* all_remaining after `for recs in country_recs.values(): extend(recs)`.
extend_all(country_recs, codes) ==
  IF codes = <<>> THEN <<>>
  ELSE country_recs[Head(codes)] \o extend_all(country_recs, Tail(codes))

InitHome ==
  /\ profile = <<>>
  /\ corpus \in HomeCorpora
  /\ limit = TopCount /\ api_key = FALSE
  /\ pc = "home" /\ result = <<>>
  /\ NoRun

\* views.py 66-82: the per-country lists of the best PerCountry rows.
HomeCollect ==
  /\ pc = "home"
  /\ LET \* the countries_with_recs queryset, in Country's default order
         codes ==
           SelectSeq(CountriesByName,
             LAMBDA c : \E i \in DOMAIN corpus :
                /\ corpus[i].country = c
                /\ corpus[i].evidence_quality \in {"High", "Moderate"})
         country_recs ==
           [c \in {codes[i] : i \in DOMAIN codes} |->
              first_n(SelectSeq(high_quality_recs(corpus), LAMBDA r : r.country = c),
                      PerCountry)]
     IN /\ result' = [top_recommendations |-> <<>>, codes |-> codes,
                      country_recs |-> country_recs, position |-> 1,
                      all_remaining |-> <<>>]
        /\ pc' = IF codes # <<>> THEN "each_country" ELSE "additional"
  /\ UNCHANGED <<profile, corpus, limit, api_key>>
  /\ RunUnchanged

\* views.py 86-96: one iteration of the loop over country_recs.items(),
\* and after the last one the making of all_remaining.
HomePickFromCountry ==
  /\ pc = "each_country"
  /\ LET code == result.codes[result.position]
         recs == result.country_recs[code]
         last == result.position = Len(result.codes)
     IN \E k \in 1..(IF Len(recs) = 0 THEN 1 ELSE Len(recs)) :
          LET picks == Len(result.top_recommendations) < TopCount /\ recs # <<>>
              top == IF picks THEN Append(result.top_recommendations, recs[k])
                     ELSE result.top_recommendations
              lists == IF picks
                         THEN [result.country_recs EXCEPT ![code] = remove_at(recs, k)]
                         ELSE result.country_recs
              remaining == IF last THEN extend_all(lists, result.codes) ELSE <<>>
          IN /\ result' = [result EXCEPT !.top_recommendations = top,
                                         !.country_recs = lists,
                                         !.position = @ + 1,
                                         !.all_remaining = remaining]
             /\ pc' = IF ~last THEN "each_country"
                      ELSE IF (Len(top) < TopCount /\ remaining # <<>>) THEN "while"
                      ELSE "additional"
  /\ UNCHANGED <<profile, corpus, limit, api_key>>
  /\ RunUnchanged

\* views.py 98-101: one iteration of the while loop.
HomePickRemaining ==
  /\ pc = "while"
  /\ \E k \in 1..Len(result.all_remaining) :
       LET top == Append(result.top_recommendations, result.all_remaining[k])
           remaining == remove_at(result.all_remaining, k)
       IN /\ result' = [result EXCEPT !.top_recommendations = top,
                                      !.all_remaining = remaining]
          /\ pc' = IF (Len(top) < TopCount /\ remaining # <<>>) THEN "while" ELSE "additional"
  /\ UNCHANGED <<profile, corpus, limit, api_key>>
  /\ RunUnchanged

\* The fill taking the best rows without excluding those already selected.
HomeFillAdditionalKeepingSelected ==
  /\ pc = "additional"
  /\ LET top == result.top_recommendations
         additional_recs == first_n(high_quality_recs(corpus), TopCount - Len(top))
     IN result' = [result EXCEPT !.top_recommendations =
                      IF Len(top) < TopCount THEN top \o additional_recs ELSE top]
  /\ pc' = "rendered"
  /\ UNCHANGED <<profile, corpus, limit, api_key>>
  /\ RunUnchanged

\* views.py 103-107: the fill from the rows not yet selected.
HomeFillAdditional ==
  /\ pc = "additional"
  /\ LET top == result.top_recommendations
         remaining_ids == {top[i].id : i \in DOMAIN top}
         additional_recs ==
           first_n(SelectSeq(high_quality_recs(corpus), LAMBDA r : r.id \notin remaining_ids),
                   TopCount - Len(top))
     IN result' = [result EXCEPT !.top_recommendations =
                      IF Len(top) < TopCount THEN top \o additional_recs ELSE top]
  /\ pc' = "rendered"
  /\ UNCHANGED <<profile, corpus, limit, api_key>>
  /\ RunUnchanged

NextHome ==
  \/ HomeCollect
  \/ HomePickFromCountry
  \/ HomePickRemaining
  \/ HomeFillAdditional

\* The view runs to its end once called: every step of it is taken.
SpecHome == InitHome /\ [][NextHome]_vars /\ WF_vars(NextHome)

(***************************************************************************)
(* analyze_recommendations as a function of profile, key and service answer *)
(***************************************************************************)
MaxLines == 3

ParseLines ==
  { "", "   ", "Here is my analysis.", "  Brush twice daily  ", "- Use fluoride toothpaste",
    "**PRIORITY ACTIONS:** **RISK ASSESSMENT:**", "RISK ASSESSMENT:",
    "**RISK ASSESSMENT:**", "**PERSONALIZED ADVICE:**", "**PRIORITY ACTIONS:**",
    "**PREVENTIVE STRATEGIES:**", "**PROFESSIONAL CARE:**", "**IMPORTANT NOTES:**" }

AnyOutcomes == {ServiceRaises} \cup {ServiceReturns(r) : r \in SeqsUpTo(ParseLines, MaxLines)}

InitAnalyze ==
  /\ profile \in RunProfiles
  /\ corpus \in {CorpusOf(<<>>), CorpusOf(<<1>>)}
  /\ limit = DefaultLimit
  /\ api_key \in BOOLEAN
  /\ pc = "analyze" /\ result = <<>>
  /\ scored = <<>> /\ idx = 0 /\ recommendations = corpus
  /\ db_session = NoSession /\ ai_session = NoSession
  /\ m2m = {} /\ matches = <<>> /\ ai_analysis = <<>>
  /\ ai_raised = FALSE /\ exc = NoExc /\ admin_edits = 0
  /\ cache = <<>> /\ calls = <<>> /\ translator = <<>>

AnalyzeAny == AnalyzeWith(AnyOutcomes)

SpecAnalyze == InitAnalyze /\ [][AnalyzeAny]_vars

(***************************************************************************)
(* Properties                                                              *)
(***************************************************************************)

\* C1: the relevance score returned by _calculate_relevance_score is never
\* below 0.0 and never above 1.0, the age-mismatch penalty included.
C1_ScoreInUnitInterval ==
  pc \in {"scored", "prioritised"} => result.score >= 0 /\ result.score <= 100

\* The base score met by the age-mismatch penalty alone: the score is 0.0.
C1_Witness ==
  /\ pc = "scored"
  /\ _score_age_match(profile, corpus[1]) = -10
  /\ result.score = 0

\* C2: the priority tier is critical from 0.8, high from 0.6, medium from
\* 0.4 and low below, the boundary values belonging to the upper tier.
C2_TierOfScore ==
  pc = "prioritised" =>
    LET s == result.score
        t == result.priority
    IN /\ t \in {"critical", "high", "medium", "low"}
       /\ (t = "critical") = (s >= 80)
       /\ (t = "high") = (s >= 60 /\ s < 80)
       /\ (t = "medium") = (s >= 40 /\ s < 60)
       /\ (t = "low") = (s < 40)
       /\ (s \in {80, 60, 40, 79, 59, 39} =>
             t = CASE s = 80 -> "critical" [] s = 79 -> "high" [] s = 60 -> "high"
                   [] s = 59 -> "medium" [] s = 40 -> "medium" [] s = 39 -> "low")

C2_Witness == pc = "prioritised" /\ result.score = 80 /\ result.priority = "critical"

\* The ranking is by descending score and, among equal scores, in the order
\* of the filtered candidate set (the queryset order, i.e. ascending row).
Ranked(pairs) ==
  \A i, j \in 1..Len(pairs) :
    i < j => \/ pairs[i][2] > pairs[j][2]
             \/ pairs[i][2] = pairs[j][2] /\ pairs[i][1].id < pairs[j][1].id

\* C3: find_matching_recommendations returns its pairs sorted by descending
\* score, pairs of equal score in the order of the filtered candidate set.
C3_SortedStable ==
  /\ pc = "matched" => Ranked(result)
  /\ Ranked(scored)

\* A returned list that was reordered by the sort and holds a tie.
C3_Witness ==
  /\ pc = "analyze"
  /\ \E i, j \in 1..Len(scored) : i < j /\ scored[i][1].id > scored[j][1].id
  /\ \E i, j \in 1..Len(scored) : i < j /\ scored[i][2] = scored[j][2]

\* The candidates that survive the three filters and the score > 0.1 cut.
Qualified ==
  {i \in 1..Len(corpus) :
     /\ _apply_geographic_filter(profile, corpus[i])
     /\ _apply_age_filter(profile, corpus[i])
     /\ _apply_condition_filters(profile, corpus[i])
     /\ _calculate_relevance_score(profile, corpus[i]) > 10}

\* pairs are the lim highest-ranked qualified candidates.
TopRanked(pairs, lim) ==
  /\ Len(pairs) <= lim
  /\ Len(pairs) = min(lim, Cardinality(Qualified))
  /\ \A i \in 1..Len(pairs) : pairs[i][1].id \in Qualified
  /\ \A i \in 1..Len(pairs) :
       \A c \in Qualified \ {pairs[n][1].id : n \in 1..Len(pairs)} :
          \/ pairs[i][2] > _calculate_relevance_score(profile, corpus[c])
          \/ /\ pairs[i][2] = _calculate_relevance_score(profile, corpus[c])
             /\ pairs[i][1].id < c

\* C4: for a non-negative limit find_matching_recommendations returns at
\* most limit pairs, the highest-ranked ones, and a session never has more
\* than 15 match records.
C4_AtMostLimit ==
  /\ (pc = "matched" /\ limit >= 0) => TopRanked(result, limit)
  /\ pc = "analyze" => TopRanked(scored, 15)
  /\ Len(matches) <= 15
  /\ Cardinality(m2m) <= 15

\* A run that stored 15 matches out of more than 15 qualified candidates.
C4_Witness ==
  /\ pc = "done"
  /\ Cardinality(Qualified) > 15
  /\ Len(matches) = 15

\* C5: no recommendation scoring <= 0.1 is returned or stored as a match.
C5_NoBaseOnly ==
  /\ pc = "matched" =>
       \A i \in 1..Len(result) :
          /\ result[i][2] > 10
          /\ _calculate_relevance_score(profile, result[i][1]) > 10
  /\ \A i \in 1..Len(scored) : scored[i][2] > 10
  /\ \A i \in 1..Len(matches) :
          /\ matches[i].relevance_score > 10
          /\ _calculate_relevance_score(profile, corpus[matches[i].recommendation]) > 10

\* A candidate that passes the three filters with the base score only is
\* not among the pairs returned under a limit that leaves room for it.
C5_Witness ==
  /\ pc = "matched"
  /\ limit >= Len(corpus)
  /\ result # <<>>
  /\ \E i \in 1..Len(corpus) :
       /\ _apply_geographic_filter(profile, corpus[i])
       /\ _apply_age_filter(profile, corpus[i])
       /\ _apply_condition_filters(profile, corpus[i])
       /\ _calculate_relevance_score(profile, corpus[i]) = 10
       /\ \A n \in 1..Len(result) : result[n][1].id # i

Terminal == {"completed", "error"}

\* The status changes of pending -> processing -> {completed, error}, the
\* creation of the row included.
AllowedStatusChange(a, b) ==
  \/ a = b
  \/ a = "none" /\ b \in {"pending", "processing"}
  \/ a = "pending" /\ b = "processing"
  \/ a = "processing" /\ b \in Terminal

\* C6 as stated: over the run and any later operation the stored status
\* only moves pending -> processing -> {completed, error} and never changes
\* once it is completed or error.
C6_StatusMonotone ==
  [][AllowedStatusChange(db_session.status, db_session'.status)]_vars

\* C6, amended: as long as no admin edit has been made, the stored status
\* only moves along pending -> processing -> {completed, error} and never
\* changes once it is completed or error.
C6_StatusMonotoneWithoutAdmin ==
  [][(admin_edits = 0 /\ admin_edits' = 0) =>
        AllowedStatusChange(db_session.status, db_session'.status)]_vars

\* A failed run whose session is stored in error, no admin edit made.
C6_Witness ==
  /\ pc = "raised"
  /\ admin_edits = 0
  /\ db_session.status = "error"

C9_SixSections ==
  pc = "save" =>
    \A i \in 1..6 :
      /\ SectionKeys[i] \in DOMAIN ai_analysis
      /\ ai_analysis[SectionKeys[i]] \in Seq(STRING)

\* The service answered with a text that has a risk-assessment section and
\* no priority-actions marker.
C9_Witness ==
  /\ pc = "save"
  /\ api_key /\ ~ai_raised
  /\ "priority_actions" \in DOMAIN ai_analysis
  /\ ai_analysis["priority_actions"] = <<>>
  /\ ai_analysis["risk_assessment"] # <<>>

\* The profile and the candidate of scenario A.
IsScenarioA ==
  /\ corpus # <<>>
  /\ profile.age_group = "18-30" /\ profile.location_country = "United Kingdom"
  /\ profile.caries_risk = "high" /\ profile.periodontal_status = "healthy"
  /\ ~profile.has_orthodontics /\ ~profile.has_diabetes
  /\ ~profile.is_pregnant /\ ~profile.has_dry_mouth
  /\ corpus[1].title = {"Fluoride", "high risk", "adults", "UK"}
  /\ corpus[1].country = "United Kingdom"
  /\ corpus[1].strength = "Strong" /\ corpus[1].evidence_quality = "High"

\* C10: scenario A scores exactly 1.0, from base 0.1, strength 0.25,
\* evidence 0.3, caries match 0.3 and geographic match 0.3, capped, and is
\* assigned tier critical.
C10_ScenarioA ==
  (IsScenarioA /\ pc \in {"scored", "prioritised"}) =>
    /\ result.score = 100
    /\ first_match_bonus(strength_scores, corpus[1].strength) = 25
    /\ first_match_bonus(quality_scores, corpus[1].evidence_quality) = 30
    /\ _score_condition_match(profile, corpus[1]) = 30
    /\ _score_geographic_match(profile, corpus[1]) = 30
    /\ pc = "prioritised" => result.priority = "critical"

C10_Witness ==
  /\ IsScenarioA
  /\ pc = "prioritised"
  /\ profile.fluoride_exposure = "toothpaste" /\ profile.diet_sugar_intake = "low"
  /\ result.priority = "critical"

C12_ErrorMessageNotExposed ==
  (result # <<>> /\ db_session.status = "error") =>
     /\ "error_message" \notin DOMAIN result.data
     /\ db_session.error_message # "" =>
          /\ \A f \in DOMAIN result.data : result.data[f] # db_session.error_message
          /\ \A i \in 1..Len(result.messages) :
                result.messages[i] # db_session.error_message

\* The RecommendationMatch rows of session pk, in creation order.
MatchRowsOf(pk) == SelectSeq(matches, LAMBDA m : m.ai_session = pk)

\* The matched_recommendations of session pk.
MatchedOf(pk) == {x[2] : x \in {y \in m2m : y[1] = pk}}

\* What a run for profile p alone finds.
AloneScored(p) == find_matching_recommendations(p, corpus, ProcessLimit)

\* The match rows that a run alone creates for its session pk from the
\* pairs it found.
AloneMatches(p, pk, found) ==
  [i \in 1..Len(found) |->
     [ai_session |-> pk,
      recommendation |-> found[i][1].id,
      relevance_score |-> found[i][2],
      match_reasoning |-> _generate_match_reasoning(p, found[i][1], found[i][2]),
      priority_level |-> priority_level(found[i][2])]]

\* The analyses that a run for p alone can get from the narrative service.
AloneAnalyses(p, found) ==
  {analyze_recommendations(api_key, p, [i \in 1..Len(found) |-> found[i][1]], o) :
     o \in TwoOutcomes}

\* The run r has ended as it ends alone.
EndsAsAlone(r) ==
  LET pk == ai_session[r].pk
      row == db_session[pk]
      p == profile[r]
      found == AloneScored(p)
  IN /\ pc[r] = "done" =>
          /\ row.status = "completed" /\ row.user_profile = r
          /\ row = ai_session[r]
          /\ MatchRowsOf(pk) = AloneMatches(p, pk, found)
          /\ MatchedOf(pk) = {found[i][1].id : i \in 1..Len(found)}
          /\ \E a \in AloneAnalyses(p, found) :
                /\ row.gemini_analysis = a.gemini_analysis
                /\ row.personalized_advice = a.personalized_advice
                /\ row.risk_assessment = a.risk_assessment
                /\ row.priority_actions =
                     slice_to(extract_actions(a.priority_actions), MaxActions)
     /\ pc[r] = "raised" =>
          LET created == IF exc[r].at = "find" THEN 0 ELSE idx[r] - 1
              added == IF exc[r].at = "create" THEN idx[r] ELSE created
          IN /\ row.status = "error" /\ row.user_profile = r
             /\ row.error_message = str(exc[r])
             /\ row.gemini_analysis = <<>>
             /\ MatchRowsOf(pk) = SubSeq(AloneMatches(p, pk, found), 1, created)
             /\ MatchedOf(pk) = {found[i][1].id : i \in 1..added}

\* A step that is not a step of run r leaves r's session row, match rows
\* and matched recommendations as they were.
OthersUntouched(r) ==
  (pc'[r] = pc[r] /\ ai_session[r] # NoSession) =>
     /\ ai_session'[r] = ai_session[r]
     /\ db_session'[ai_session[r].pk] = db_session[ai_session[r].pk]
     /\ MatchRowsOf(ai_session[r].pk)' = MatchRowsOf(ai_session[r].pk)
     /\ MatchedOf(ai_session[r].pk)' = MatchedOf(ai_session[r].pk)

\* C13: two runs for two different profiles, interleaved at their database
\* reads and writes, each end with the session status, the ordered match
\* rows (scores, tiers, reasoning) and the narrative of the run executing
\* alone, and no step of one run changes the session row or the match rows
\* of the other.
C13_RunsIndependent ==
  /\ [](\A r \in Runs : pc[r] \in {"done", "raised"} => EndsAsAlone(r))
  /\ [][\A r \in Runs : OthersUntouched(r)]_vars

\* Both runs have completed with matches and their match rows alternate in
\* the table.
C13_Witness ==
  /\ pc = <<"done", "done">>
  /\ \E i, j, k \in 1..Len(matches) :
       /\ i < j /\ j < k
       /\ matches[i].ai_session = matches[k].ai_session
       /\ matches[i].ai_session # matches[j].ai_session

UKAliases == {"uk", "england", "scotland", "wales", "northern ireland"}
USAliases == {"usa", "us", "america"}

\* What the claim says of one application: a blank value is rejected, an
\* alias (trimmed, in any case) gives its canonical name, anything else
\* comes back trimmed and title-cased.
CleanedAsClaimed ==
  LET typed == profile[Len(profile)].location_country
      trimmed == strip(typed)
  IN /\ pc = "invalid" => trimmed = "" /\ result.raised = "ValidationError"
     /\ pc = "cleaned" =>
          /\ trimmed # ""
          /\ lower(trimmed) \in UKAliases => result.value = "United Kingdom"
          /\ lower(trimmed) \in USAliases => result.value = "United States"
          /\ lower(trimmed) \notin UKAliases \cup USAliases =>
               result.value = title(trimmed)

\* C14 as claimed: one application behaves as described, and an
\* application to its own output returns that output.
C14_CleanIdempotent ==
  /\ CleanedAsClaimed
  /\ (pc = "cleaned" /\ Len(profile) = 2) => result.value = profile[2].location_country

\* The values of CountryInputs with a character outside ASCII.
NonAscii == {"  {U+017F}cotland ", "{U+017F}cotland"}

\* C14 amended: one application behaves as described, and an application
\* to its own output returns that output when the submitted value was
\* ASCII (the output of an ASCII value is ASCII).
C14_CleanIdempotentOnAscii ==
  /\ CleanedAsClaimed
  /\ (pc = "cleaned" /\ Len(profile) = 2 /\ profile[1].location_country \notin NonAscii) =>
        result.value = profile[2].location_country

\* An alias typed in capitals has been mapped and the canonical name,
\* submitted again, has come back unchanged.
C14_Witness ==
  /\ pc = "cleaned" /\ Len(profile) = 2
  /\ profile[1].location_country = "  usa "
  /\ profile[2].location_country = "United States"
  /\ result.value = "United States"

\* The cache key of the translate_text call in progress.
CallKey == get_cache_key(profile.text, profile.target_lang, profile.source_lang)

\* The calls made so far come in the order cache, Google, LibreTranslate,
\* cache write: Google only right after the cache lookup, LibreTranslate
\* only after the lookup or Google, the write only after a provider.
CallsInOrder ==
  /\ Len(calls) >= 1 => calls[1] = "cache.get"
  /\ \A i \in 2..Len(calls) :
       /\ calls[i] # "cache.get"
       /\ calls[i] = "google" => i = 2
       /\ calls[i] = "libretranslate" => calls[i - 1] \in {"cache.get", "google"}
       /\ calls[i] = "cache.set" => calls[i - 1] \in {"google", "libretranslate"}
  /\ (Len(calls) >= 2 /\ translator.google_api_key # NULL) => calls[2] = "google"

\* The value returned by a call that got past the early returns.
ReturnedAsClaimed ==
  (pc = "returned" /\ calls # <<>>) =>
     LET last == calls[Len(calls)] IN
       /\ last # "google"
       /\ last = "cache.get" => Len(calls) = 1 /\ truthy(result)
       /\ last = "cache.set" => truthy(result)
       /\ last = "libretranslate" => result = profile.text

\* The steps of a call: a hit returns the cached value without a provider
\* call, LibreTranslate follows Google only when Google yielded nothing, a
\* provider result is written to the cache and returned, and when both
\* providers fail the text is returned and the cache is left alone.
StepsAsClaimed ==
  /\ (pc = "cache_get" /\ pc' # pc) =>
        IF CallKey \in DOMAIN cache /\ truthy(cache[CallKey])
          THEN pc' = "returned" /\ result' = cache[CallKey] /\ calls' = <<"cache.get">>
          ELSE pc' = "google"
  /\ (pc = "google" /\ pc' # pc) =>
        IF truthy(result') THEN pc' = "cache_set" ELSE pc' = "libre"
  /\ (pc = "libre" /\ pc' = "returned") => cache' = cache /\ result' = profile.text
  /\ (pc = "libre" /\ pc' = "cache_set") => truthy(result')
  /\ (pc = "cache_set" /\ pc' = "returned") =>
        /\ CallKey \in DOMAIN cache' /\ cache'[CallKey] = result
        /\ result' = result
  /\ (pc # "cache_set") =>
        \A k \in DOMAIN cache' : k \in DOMAIN cache /\ cache'[k] = cache[k]

\* C15: for non-blank text and a supported target language other than the
\* source, translate_text looks in the cache, then calls Google, then
\* LibreTranslate, stopping at the first non-empty result; a provider
\* result is cached; when every provider fails the text is returned as it
\* was, nothing is cached, and no exception leaves the call.
C15_TranslateFallbackOrder ==
  /\ [](CallsInOrder /\ ReturnedAsClaimed /\ exc = NoExc)
  /\ [][StepsAsClaimed]_vars

\* Google had a key and yielded nothing, LibreTranslate translated, and its
\* result was cached and returned.
C15_Witness ==
  /\ pc = "returned"
  /\ calls = <<"cache.get", "google", "libretranslate", "cache.set">>
  /\ result = "Cepillarse (libretranslate)"
  /\ CallKey \in DOMAIN cache /\ cache[CallKey] = result

\* The evidence-quality bonus as the claim tables it, in hundredths.
EvidenceBonusAsClaimed(rec) ==
  LET name == {rec.evidence_quality} IN
  IF rec.evidence_quality = NULL THEN 0
  ELSE IF icontains(name, "high") THEN 30
  ELSE IF icontains(name, "moderate") THEN 20
  ELSE IF icontains(name, "very low") THEN 5
  ELSE IF icontains(name, "low") THEN 10
  ELSE 0

\* C16: the score is the capped sum of the base, the strength bonus, the
\* four profile dimensions and exactly one evidence-quality bonus: +0.3 for
\* a name containing 'high', +0.2 for 'moderate', +0.1 for 'low' but not
\* 'very low', +0.05 for 'very low', nothing for none or no quality.
C16_EvidenceBonus ==
  pc = "scored" =>
    LET rec == corpus[1]
        strength == IF rec.strength # NULL
                      THEN first_match_bonus(strength_scores, rec.strength) ELSE 0
    IN result.score =
         min(10 + EvidenceBonusAsClaimed(rec) + strength
             + _score_age_match(profile, rec) + _score_condition_match(profile, rec)
             + _score_geographic_match(profile, rec) + _score_risk_alignment(profile, rec),
             100)

\* The profile location contains the term, case-insensitively.
LocationHas(term) == icontains({profile.location_country}, term)

\* C17: the geographic step puts a location containing 'uk', 'england' or
\* 'scotland' in the UK bucket (and the US, Canada and Australia aliases in
\* theirs), selects at most one bucket, and skips filtering only for a
\* location that contains no alias of any bucket.
C17_LocationBucket ==
  (pc = "filtered" /\ result.step = "geographic") =>
     /\ (LocationHas("uk") \/ LocationHas("england") \/ LocationHas("scotland")) =>
           result.country_filters = {"United Kingdom", "England", "Scotland"}
     /\ result.country_filters \in
           { {"United Kingdom", "England", "Scotland"}, {"United States"},
             {"Canada"}, {"Australia"}, {} }
     /\ result.country_filters = {} =>
           ~ \E alias \in {"united kingdom", "uk", "england", "scotland",
                           "united states", "usa", "america", "canada", "australia"} :
                LocationHas(alias)

\* The candidate's organization is a WHO or International one.
GloballyRelevant(rec) ==
  icontains({rec.org}, "WHO") \/ icontains({rec.org}, "International")

\* C18: when the geographic step has selected a bucket the candidate is
\* kept exactly if its country name contains one of the bucket's terms or
\* its organization name contains 'WHO' or 'International'; with no bucket
\* it is kept; so a WHO/International candidate is never removed.
C18_GeographicKeep ==
  (pc = "filtered" /\ result.step = "geographic") =>
     LET rec == corpus[1]
         kept == result.queryset = corpus
         dropped == result.queryset = <<>>
     IN /\ kept \/ dropped
        /\ result.country_filters # {} =>
             (kept <=> \/ \E term \in result.country_filters :
                            icontains({rec.country}, term)
                       \/ GloballyRelevant(rec))
        /\ result.country_filters = {} => kept
        /\ GloballyRelevant(rec) => kept

\* A candidate from Canada is kept for a UK profile only because its
\* organization is an International one.
C18_Witness ==
  /\ pc = "filtered" /\ result.step = "geographic"
  /\ result.country_filters = {"United Kingdom", "England", "Scotland"}
  /\ corpus[1].country = "Canada"
  /\ result.queryset = corpus

\* The conditions of the profile that are active.
ActiveConditions ==
  {c \in {"caries", "periodontal", "orthodontics", "diabetes", "pregnancy", "dry mouth"} :
     CASE c = "caries" -> profile.caries_risk = "high"
       [] c = "periodontal" -> profile.periodontal_status # "healthy"
       [] c = "orthodontics" -> profile.has_orthodontics
       [] c = "diabetes" -> profile.has_diabetes
       [] c = "pregnancy" -> profile.is_pregnant
       [] c = "dry mouth" -> profile.has_dry_mouth}

\* The keyword predicate of a condition.
ConditionKeywords(c, rec) ==
  CASE c = "caries" -> caries_filter(rec)
    [] c = "periodontal" -> periodontal_filter(rec)
    [] c = "orthodontics" -> orthodontics_filter(rec)
    [] c = "diabetes" -> diabetes_filter(rec)
    [] c = "pregnancy" -> pregnancy_filter(rec)
    [] c = "dry mouth" -> dry_mouth_filter(rec)

\* C19: with no active condition the condition step keeps the candidate;
\* otherwise it keeps it exactly if the candidate matches the keywords of
\* an active condition or its title contains 'oral health', 'dental
\* hygiene' or 'tooth brushing'; the keywords of an inactive condition do
\* not admit it.
C19_ConditionKeep ==
  (pc = "filtered" /\ result.step = "condition") =>
     LET rec == corpus[1]
         kept == result.queryset = corpus
         dropped == result.queryset = <<>>
         generic == \/ icontains(rec.title, "oral health")
                    \/ icontains(rec.title, "dental hygiene")
                    \/ icontains(rec.title, "tooth brushing")
     IN /\ kept \/ dropped
        /\ ActiveConditions = {} => kept
        /\ ActiveConditions # {} =>
             (kept <=> \/ \E c \in ActiveConditions : ConditionKeywords(c, rec)
                       \/ generic)

\* A candidate that matches only the caries keywords is dropped for a
\* profile whose only active condition is diabetes.
C19_Witness ==
  /\ pc = "filtered" /\ result.step = "condition"
  /\ ActiveConditions = {"diabetes"}
  /\ caries_filter(corpus[1])
  /\ result.queryset = <<>>

\* C20: the age dimension gives +0.2 when title or body contains a keyword
\* of the profile's own bracket; failing that, -0.1 when they contain a
\* keyword of another bracket other than the bare 'adult'; otherwise 0.
\* It never gives both: a match wins over a mismatch.
C20_AgeContribution ==
  (pc = "dimension_scored" /\ result.dimension = "age") =>
     LET t == corpus[1].title \cup corpus[1].text
         match == \E kw \in score_age_keywords(profile.age_group) : icontains(t, kw)
         mismatch == \E g \in AgeGroups \ {profile.age_group} :
                        \E kw \in score_age_keywords(g) :
                           kw # "adult" /\ icontains(t, kw)
     IN /\ result.value \in {20, -10, 0}
        /\ match => result.value = 20
        /\ (~match /\ mismatch) => result.value = -10
        /\ (~match /\ ~mismatch) => result.value = 0

\* A text whose only age word is 'adults' costs an infant's profile
\* nothing, and a text with 'young adults' earns a 31-50 profile the bonus
\* although 'young adult' is another bracket's keyword.
C20_Witness ==
  /\ pc = "dimension_scored" /\ result.dimension = "age"
  /\ LET t == corpus[1].title \cup corpus[1].text IN
       \/ /\ profile.age_group = "0-2" /\ icontains(t, "adult")
          /\ result.value = 0
          /\ corpus[1].text = {"adults"} /\ profile.has_diabetes

\* Terms of one string found in another, both lower-cased.
HasTerm(terms, name) == \E t \in terms : contains(t, lower(name))

UKFamily == {"united kingdom", "england", "scotland", "wales"}

\* C21: the geographic dimension gives one value, by first match: +0.3 when
\* the lower-cased location is inside, or contains, the guideline's country
\* name; else +0.25 when location and country name both contain a UK-family
\* term; else +0.15 when the organization name contains 'who',
\* 'international' or 'world'; else 0.  The values are never added up.
C21_GeographicContribution ==
  (pc = "dimension_scored" /\ result.dimension = "geographic") =>
     LET u == lower(profile.location_country)
         c == lower(corpus[1].country)
         direct == contains(u, c) \/ contains(c, u)
         family == HasTerm(UKFamily, u) /\ HasTerm(UKFamily, c)
         world == HasTerm({"who", "international", "world"}, corpus[1].org)
     IN /\ result.value \in {30, 25, 15, 0}
        /\ direct => result.value = 30
        /\ (~direct /\ family) => result.value = 25
        /\ (~direct /\ ~family /\ world) => result.value = 15
        /\ (~direct /\ ~family /\ ~world) => result.value = 0

\* The location 'New England' scored against a guideline from England
\* issued by a 'World' federation: all three branches apply and the value
\* is 0.3.
C21_Witness ==
  /\ pc = "dimension_scored" /\ result.dimension = "geographic"
  /\ profile.location_country = "New England"
  /\ corpus[1].country = "England"
  /\ HasTerm({"world"}, corpus[1].org)
  /\ result.value = 30

\* The scorer's keywords and bonus of each condition.
ScoreKeywords(c) ==
  CASE c = "caries" -> {"high risk", "caries", "decay", "fluoride"}
    [] c = "periodontal" -> {"periodontal", "gum", "gingivitis"}
    [] c = "orthodontics" -> {"orthodontic", "braces"}
    [] c = "diabetes" -> {"diabetes", "diabetic"}
    [] c = "pregnancy" -> {"pregnancy", "pregnant"}
    [] c = "dry mouth" -> {"dry mouth", "xerostomia"}

ConditionBonus(c) == IF c \in {"caries", "periodontal"} THEN 30 ELSE 25

RECURSIVE SumBonus(_)
SumBonus(S) ==
  IF S = {} THEN 0
  ELSE LET c == CHOOSE x \in S : TRUE IN ConditionBonus(c) + SumBonus(S \ {c})

\* Conditions whose scorer keywords occur in the title or body.
Mentioned(rec) ==
  {c \in {"caries", "periodontal", "orthodontics", "diabetes", "pregnancy", "dry mouth"} :
     \E kw \in ScoreKeywords(c) : \E ph \in rec.title \cup rec.text :
        contains(kw, lower(ph))}

\* C22: the condition dimension is the sum, over the active conditions
\* whose keywords occur in title or body, of +0.3 (caries, periodontal) or
\* +0.25 (orthodontics, diabetes, pregnancy, dry mouth), each condition
\* once; an inactive condition adds nothing even when its keywords occur.
C22_ConditionContribution ==
  (pc = "dimension_scored" /\ result.dimension = "condition") =>
     result.value = SumBonus(ActiveConditions \cap Mentioned(corpus[1]))

\* A text mentioning two conditions of which the profile has one: only
\* that one is credited.
C22_Witness ==
  /\ pc = "dimension_scored" /\ result.dimension = "condition"
  /\ Cardinality(Mentioned(corpus[1])) = 2
  /\ Cardinality(ActiveConditions \cap Mentioned(corpus[1])) = 1
  /\ ActiveConditions \ Mentioned(corpus[1]) # {}
  /\ result.value = 25

\* The clause kinds of a match reasoning, in their order.
ClauseOrder == <<"geographic", "age", "caries", "periodontal", "evidence">>

\* The age words of the reasoning, in the order they are looked for.
ReasoningAgeWords == <<"infant", "child", "adolescent", "adult", "senior">>

AgeWordsFound(rec) ==
  {i \in 1..Len(ReasoningAgeWords) :
     \E ph \in rec.title \cup rec.text : contains(ReasoningAgeWords[i], lower(ph))}

ClauseApplies(kind, p, rec) ==
  CASE kind = "geographic" -> contains(lower(p.location_country), lower(rec.country))
    [] kind = "age" -> AgeWordsFound(rec) # {}
    [] kind = "caries" ->
         p.caries_risk = "high" /\ any_in({"caries", "decay", "fluoride"}, text_lower(rec))
    [] kind = "periodontal" ->
         p.periodontal_status # "healthy" /\ any_in({"periodontal", "gum"}, text_lower(rec))
    [] kind = "evidence" ->
         rec.evidence_quality # NULL /\ contains("high", lower(rec.evidence_quality))

ClauseText(kind, p, rec) ==
  CASE kind = "geographic" -> "Guideline from " \o rec.country
    [] kind = "age" ->
         LET first == CHOOSE i \in AgeWordsFound(rec) : \A j \in AgeWordsFound(rec) : i <= j
         IN "Age-appropriate (" \o ReasoningAgeWords[first] \o ")"
    [] kind = "caries" -> "Addresses high caries risk"
    [] kind = "periodontal" -> "Relevant to gum health concerns"
    [] kind = "evidence" -> "High-quality evidence"

\* The clauses that apply, in the fixed order.
ClausesOf(p, rec) ==
  LET kinds == SelectSeq(ClauseOrder, LAMBDA kind : ClauseApplies(kind, p, rec))
  IN [i \in 1..Len(kinds) |-> ClauseText(kinds[i], p, rec)]

\* A number of hundredths written with two decimals.
TwoDecimals(h) ==
  LET digit(d) == CASE d = 0 -> "0" [] d = 1 -> "1" [] d = 2 -> "2" [] d = 3 -> "3"
                    [] d = 4 -> "4" [] d = 5 -> "5" [] d = 6 -> "6" [] d = 7 -> "7"
                    [] d = 8 -> "8" [] d = 9 -> "9"
  IN digit(h \div 100) \o "." \o digit((h \div 10) % 10) \o digit(h % 10)

RecOfMatch(m) == CHOOSE rec \in {corpus[i] : i \in DOMAIN corpus} : rec.id = m.recommendation

\* C23: the reasoning of every stored match is the clauses that apply, in
\* the order geographic, age (first age word found), caries, periodontal,
\* evidence, joined with '; ', or the default clause alone exactly when no
\* clause applies, followed by the score with two decimals in parentheses;
\* it is never empty.
C23_ReasoningStructure ==
  \A i \in DOMAIN matches :
     LET m == matches[i]
         clauses == ClausesOf(profile, RecOfMatch(m))
         body == IF clauses = <<>> THEN "General oral health recommendation"
                 ELSE join(clauses)
     IN /\ m.match_reasoning =
             body \o " (Relevance score: " \o TwoDecimals(m.relevance_score) \o ")"
        /\ m.match_reasoning # ""

\* A run that stores one match whose reasoning joins two clauses and one
\* whose reasoning is the default clause.
C23_Witness ==
  /\ \E i \in DOMAIN matches :
        Len(ClausesOf(profile, RecOfMatch(matches[i]))) = 2
  /\ \E i \in DOMAIN matches :
        /\ ClausesOf(profile, RecOfMatch(matches[i])) = <<>>
        /\ matches[i].match_reasoning =
             "General oral health recommendation (Relevance score: "
               \o TwoDecimals(matches[i].relevance_score) \o ")"

\* A line with its leading bullet markers (bullet, blank, dash) removed and
\* the rest of the line as it was.
LeadingBulletsRemoved(line) ==
  CASE line = "   " -> ""
    [] line = "  Brush twice daily  " -> "Brush twice daily  "
    [] line = "- Use fluoride toothpaste" -> "Use fluoride toothpaste"
    [] line = "+" -> ""
    [] line = "+ See your dentist -" -> "See your dentist -"
    [] OTHER -> line

\* C24: the priority_actions stored on a completed session has at most 5
\* entries; they are the first non-blank lines of the narrative's
\* priority-actions text, in order, each with only its leading bullet
\* markers removed, and none of them is empty.
C24_PriorityActions ==
  (pc = "done" /\ db_session.status = "completed") =>
     LET lines == split_lines(dict_get(ai_analysis, "priority_actions"))
         nonblank == SelectSeq(lines, LAMBDA line : strip(line) # "")
         stored == db_session.priority_actions
     IN /\ Len(stored) <= 5
        /\ Len(stored) = min(5, Len(nonblank))
        /\ \A i \in DOMAIN stored :
              /\ stored[i] = LeadingBulletsRemoved(nonblank[i])
              /\ stored[i] # ""

\* The markers carried by line n of a response.
MarkersOn(lines, n) == {i \in 1..6 : marker_in(SectionMarkers[i], strip(lines[n]))}

\* The most recent marker line before line n, 0 if there is none.
LatestMarkerLine(lines, n) ==
  LET before == {m \in 1..(n - 1) : MarkersOn(lines, m) # {}}
  IN IF before = {} THEN 0 ELSE CHOOSE m \in before : \A k \in before : k <= m

\* Non-blank lines without a marker.
ContentLine(lines, n) == strip(lines[n]) # "" /\ MarkersOn(lines, n) = {}

\* The content lines that follow marker lines opening section i, in order,
\* when marker line m opens section opens[m].
SectionAsClaimed(lines, opens, i) ==
  LET numbers == SelectSeq([n \in 1..Len(lines) |-> n],
                   LAMBDA n : /\ ContentLine(lines, n)
                              /\ LatestMarkerLine(lines, n) # 0
                              /\ opens[LatestMarkerLine(lines, n)] = i)
  IN [k \in 1..Len(numbers) |-> strip(lines[numbers[k]])]

\* C25: a parsed response has its six sections, each made of the non-blank
\* marker-free lines whose most recent preceding marker line opens that
\* section, in order; lines before the first marker are in no section and
\* a section whose marker never appears is empty.
C25_ParseSections ==
  (pc = "save" /\ api_key /\ ~ai_raised) =>
     LET lines == split_lines(ai_analysis["gemini_analysis"])
         markerlines == {m \in 1..Len(lines) : MarkersOn(lines, m) # {}}
     IN /\ DOMAIN ai_analysis = {SectionKeys[i] : i \in 1..6} \cup {"gemini_analysis"}
        /\ \E opens \in [markerlines -> 1..6] :
             /\ \A m \in markerlines : opens[m] \in MarkersOn(lines, m)
             /\ \A i \in 1..6 :
                   ai_analysis[SectionKeys[i]] = SectionAsClaimed(lines, opens, i)
        /\ \A i \in 1..6 :
             (\A m \in 1..Len(lines) : i \notin MarkersOn(lines, m))
                => ai_analysis[SectionKeys[i]] = <<>>

\* A response with a line before the first marker, then two markers and a
\* line that goes to the second one only.
C25_Witness ==
  /\ pc = "save" /\ api_key /\ ~ai_raised
  /\ \/ ai_analysis["gemini_analysis"] =
          <<"**RISK ASSESSMENT:**", "**PRIORITY ACTIONS:**", "  Brush twice daily  ">>
     \/ ai_analysis["gemini_analysis"] =
          <<"Here is my analysis.", "**PRIORITY ACTIONS:**", "- Use fluoride toothpaste">>
  /\ Len(ai_analysis["priority_actions"]) = 1
  /\ ai_analysis["risk_assessment"] = <<>>

\* C26: when process_user_profile, having created its session, returns or
\* raises, the stored status is completed or error and never processing,
\* whichever step failed, the writes of the final status included.
C26_LeavesProcessing ==
  pc \in {"done", "raised"} => db_session.status \in {"completed", "error"}

\* C26 for the runs the code covers: a returned run is stored as completed;
\* a run that raises is stored as error, whichever step failed, the write
\* of the completed status included, unless the write of the error status
\* in the except block itself fails: then the stored status stays
\* processing.
C26_LeavesProcessingUnlessHandlerWriteFails ==
  /\ pc = "done" => db_session.status = "completed"
  /\ (pc = "raised" /\ exc.at # "except") => db_session.status = "error"
  /\ (pc = "raised" /\ exc.at = "except") => db_session.status = "processing"

\* The write of the completed status failed and the except block stored error.
C26_Witness ==
  /\ pc = "raised" /\ exc.at = "save"
  /\ db_session.status = "error" /\ ai_session.status = "error"
  /\ matches # <<>>

\* The profiles that differ from p by one active condition made inactive.
OneConditionFewer(p) ==
     (IF p.caries_risk = "high" THEN {[p EXCEPT !.caries_risk = "low"]} ELSE {})
  \cup (IF p.periodontal_status # "healthy"
          THEN {[p EXCEPT !.periodontal_status = "healthy"]} ELSE {})
  \cup (IF p.has_orthodontics THEN {[p EXCEPT !.has_orthodontics = FALSE]} ELSE {})
  \cup (IF p.has_diabetes THEN {[p EXCEPT !.has_diabetes = FALSE]} ELSE {})
  \cup (IF p.is_pregnant THEN {[p EXCEPT !.is_pregnant = FALSE]} ELSE {})
  \cup (IF p.has_dry_mouth THEN {[p EXCEPT !.has_dry_mouth = FALSE]} ELSE {})

\* Candidates of the corpus that the condition step keeps for profile q.
KeptFor(q) == {corpus[i] : i \in {j \in DOMAIN corpus : _apply_condition_filters(q, corpus[j])}}

HasActiveCondition(q) ==
  \/ q.caries_risk = "high" \/ q.periodontal_status # "healthy"
  \/ q.has_orthodontics \/ q.has_diabetes \/ q.is_pregnant \/ q.has_dry_mouth

\* C27: activating one more condition on a profile never removes a
\* candidate from the output of the condition step.
C27_ConditionMonotone ==
  (pc = "filtered" /\ result.step = "condition") =>
     \A q \in OneConditionFewer(profile) :
        KeptFor(q) \subseteq {result.queryset[i] : i \in DOMAIN result.queryset}

\* C27 for profiles that already have an active condition: activating one
\* more never removes a candidate from the output of the condition step.
C27_ConditionMonotoneAmongActive ==
  (pc = "filtered" /\ result.step = "condition") =>
     \A q \in OneConditionFewer(profile) :
        HasActiveCondition(q) =>
           KeptFor(q) \subseteq {result.queryset[i] : i \in DOMAIN result.queryset}

\* A candidate kept for a profile with two active conditions that is not
\* kept when one of them is inactive.
C27_Witness ==
  /\ pc = "filtered" /\ result.step = "condition"
  /\ Len(result.queryset) = 1
  /\ \E q \in OneConditionFewer(profile) :
        HasActiveCondition(q) /\ KeptFor(q) = {}

\* C28: a candidate that matches the condition step's keywords of an
\* active condition gets that condition's bonus in the condition
\* dimension, for each of the six conditions.
C28_FilterImpliesBonus ==
  (pc = "dimension_scored" /\ result.dimension = "condition") =>
     result.value >=
        SumBonus({c \in ActiveConditions : ConditionKeywords(c, corpus[1])})

\* C29: when a run has ended, completed or in error after a failure at any
\* step, the recommendations of the session's matched_recommendations
\* relation are those referenced by its match records, and no
\* recommendation is referenced by two match records.
C29_RelationAgreesWithMatches ==
  pc \in {"done", "raised"} =>
     /\ m2m = {matches[i].recommendation : i \in DOMAIN matches}
     /\ \A i, j \in DOMAIN matches :
           matches[i].recommendation = matches[j].recommendation => i = j

\* Countries that have a recommendation of High or Moderate evidence quality.
GoodCountries ==
  {corpus[i].country : i \in {j \in DOMAIN corpus :
                                 corpus[j].evidence_quality \in {"High", "Moderate"}}}

\* The list handed to the home page is as the claim says.
TopListAsClaimed ==
  pc = "rendered" =>
     LET top == result.top_recommendations IN
       /\ Len(top) <= 10
       /\ \A i, j \in DOMAIN top : top[i].id = top[j].id => i = j
       /\ \A i \in DOMAIN top :
             /\ top[i].evidence_quality \in {"High", "Moderate"}
             /\ \E n \in DOMAIN corpus : corpus[n] = top[i]
       /\ Cardinality(GoodCountries) <= 10 =>
             \A c \in GoodCountries : \E i \in DOMAIN top : top[i].country = c

\* C30: the random selection of the home page ends for every corpus, and
\* its list has at most 10 recommendations, none repeated, all of High or
\* Moderate evidence quality; when at most 10 countries have such
\* recommendations each of them has one in the list, whatever the random
\* choices.
C30_TopRecommendations == []TopListAsClaimed /\ <>(pc = "rendered")

\* Nine countries with eleven good recommendations: the list is full, every
\* country is in it and one good recommendation is left out.
C30_Witness ==
  /\ pc = "rendered"
  /\ Len(result.top_recommendations) = 10
  /\ Cardinality(GoodCountries) = 9
  /\ \E n \in DOMAIN corpus :
        /\ corpus[n].evidence_quality \in {"High", "Moderate"}
        /\ \A i \in DOMAIN result.top_recommendations :
              result.top_recommendations[i] # corpus[n]

====
